---------------------------- MODULE Spec2Model ----------------------------
(***************************************************************************)
(* HEARTSIGHT guardrails engine (src/src/guardrails.py) and RAG            *)
(* explanation pipeline (src/src/rag_engine.py).                           *)
(*                                                                         *)
(* Texts are sequences of lexemes.  A lexeme is a maximal chunk of         *)
(* characters of one kind (a run of letters, a run of digits, one          *)
(* white-space character, one punctuation mark) or one of the three fixed  *)
(* messages of the engine.  The regular expressions of the engine are      *)
(* evaluated on lexeme sequences exactly as Python's re evaluates them on  *)
(* the concatenated characters: adjacent letter lexemes form one word,     *)
(* \b is decided by the characters on both sides of a lexeme boundary,     *)
(* character counts are kept per lexeme.  No lexeme of the alphabet is a   *)
(* proper prefix or suffix of a keyword, so every match starts and ends on *)
(* a lexeme boundary unless stated otherwise at the pattern.               *)
(***************************************************************************)
EXTENDS Integers, Sequences, FiniteSets, TLC

VARIABLES
    gOp,          \* guardrail operation performed last: "none", "validate_input", "moderate_output"
    gPass,        \* 1 for a first call, 2 when validate_input ran on its own output
    gEndpoint,    \* endpoint argument of GuardrailsEngine(endpoint)
    gTelemetry,   \* behaviour of record_guardrail_event: "ok" or "raises"
    gInput,       \* text argument of the call
    gText,        \* GuardrailResult.text
    gEvents,      \* GuardrailResult.events
    gMetricCalls, \* record_guardrail_event invocations attempted during the call
    gRaised,      \* TRUE iff the call raised to its caller
    gPrev         \* result of the previous validate_input call (second pass only)

gvars == <<gOp, gPass, gEndpoint, gTelemetry, gInput, gText, gEvents,
           gMetricCalls, gRaised, gPrev>>

VARIABLES
    rOp,          \* explainer operation performed last: "none", "_retrieve_context", "generate_explanation"
    rDiagnosis,   \* diagnosis argument
    rAge,         \* age argument (None or a number)
    rSex,         \* sex argument (None or a string)
    rK,           \* k / k_retrieval argument
    rQuestion,    \* user_question argument (None or a string)
    rStore,       \* what the vector store answers to a search that succeeds
    rStoreMode,   \* which vector store calls raise
    rLlm,         \* what self.llm.invoke does
    rSearches,    \* the vector store calls made, in order
    rContext,     \* passages of the context string returned by _retrieve_context
    rResult,      \* dict returned by generate_explanation
    rRaised       \* TRUE iff the call raised to its caller

rvars == <<rOp, rDiagnosis, rAge, rSex, rK, rQuestion, rStore, rStoreMode,
           rLlm, rSearches, rContext, rResult, rRaised>>

VARIABLES
    cOp,          \* chat operation performed last: "none", "chat_with_rag"
    cReq,         \* the ChatRequest
    cEnv,         \* behaviour of get_explainer, the vector store and the generation model
    cTrace,       \* the collaborator calls of the handler, in order, with the text they use
    cResponse,    \* the ChatResponse returned
    cPath,        \* "answer" when the reply of the model is returned, "fallback" otherwise
    cAnswer,      \* the text extracted from the reply of the model
    cRaised       \* TRUE iff the handler raised into the framework

cvars == <<cOp, cReq, cEnv, cTrace, cResponse, cPath, cAnswer, cRaised>>

VARIABLES
    sExplainer,   \* the module global _explainer: None or an ECGExplainer instance
    sCreated,     \* number of ECGExplainer instances constructed so far
    sPc,          \* per worker thread: its position in get_explainer
    sLocal,       \* per worker thread: the instance it constructed and has not stored yet
    sGot,         \* per worker thread: what its get_explainer calls gave, in order: the instance returned or the error raised
    sCalls,       \* number of get_explainer calls started so far
    sConfig       \* the deployment: "ok", "no_db" (no vector database directory), "no_token", "load_error"

svars == <<sExplainer, sCreated, sPc, sLocal, sGot, sCalls, sConfig>>

VARIABLES
    pOp,          \* prediction operation performed last: "none", "predict_ecg"
    pInput,       \* the ECGSignalInput: shape of the signal, age, sex
    pEnv,         \* behaviour of the model, the explainer, the Prometheus client, the drift monitor
    pResponse,    \* the HTTP response: status and the fields of the result
    pCounters     \* the Prometheus counters prediction_requests_total and prediction_class_distribution_total

pvars == <<pOp, pInput, pEnv, pResponse, pCounters>>

VARIABLES
    mModel,       \* the module global _model: None or the model of a registry load
    mClassNames,  \* the module global _class_names: None or the list of class names
    mLoads,       \* number of models loaded from the registry so far
    mStarted,     \* whether the startup handler of the application has run
    mPc,          \* per worker thread: its position in get_model and load_model_from_registry
    mLocal,       \* per worker thread: the call in progress: whether the cache was full when it began, its loads, the pair load_model_from_registry returned
    mGot,         \* per worker thread: what its calls gave, in order: the pair get_model returned, the error raised
    mCalls        \* number of predict_ecg_signal calls started so far

mvars == <<mModel, mClassNames, mLoads, mStarted, mPc, mLocal, mGot, mCalls>>

-----------------------------------------------------------------------------
(* Bounds of the model *)

\* number of building blocks concatenated into a text given to validate_input
MaxInSegs == 3

\* number of building blocks concatenated into a text given to moderate_output
MaxOutSegs == 4

-----------------------------------------------------------------------------
(* Lexemes *)

REDACTED == "[REDACTED]"

SAFE_ADVICE == "For any medications or dosages, please consult a cardiologist or your treating physician for personalized guidance."

REFUSAL == "I'm sorry, but I cannot respond in that way. Let's focus on helpful, respectful information about your heart health. Please consult your cardiologist for personalized medical advice."

\* the lexemes with an upper-case letter, and their lower-case forms
Capitalised ==
    [Patient |-> "patient", Name |-> "name", John |-> "john", Mr |-> "mr",
     Take |-> "take", Idiot |-> "idiot"]

\* str.lower() / re.IGNORECASE folding of one lexeme
Fold(l) == IF l \in DOMAIN Capitalised THEN Capitalised[l] ELSE l

LowerWords ==
    {"patient", "name", "john", "mr", "mrs", "ms", "ignore", "all", "previous",
     "instructions", "disregard", "the", "above", "you", "are", "now", "act",
     "as", "a", "an", "take", "give", "administer", "mg", "milligram", "mcg",
     "g", "idiot", "stupid", "useless", "kill", "yourself", "mis"}

DigitLexemes == {"5", "50"}

IsLetters(l) == Fold(l) \in LowerWords
IsDigits(l)  == l \in DigitLexemes

\* number of characters of a lexeme of more than one character
WordChars(l) ==
    CASE l = REDACTED    -> 10
      [] l = SAFE_ADVICE -> 115
      [] l = REFUSAL     -> 182
      [] Fold(l) \in {"a", "g"} -> 1
      [] Fold(l) \in {"mr", "ms", "as", "an", "mg", "50"} -> 2
      [] Fold(l) \in {"mrs", "all", "the", "you", "are", "now", "act", "mcg", "mis"} -> 3
      [] Fold(l) \in {"name", "john", "take", "give", "kill"} -> 4
      [] Fold(l) \in {"above", "idiot"} -> 5
      [] Fold(l) \in {"ignore", "stupid"} -> 6
      [] Fold(l) \in {"patient", "useless"} -> 7
      [] Fold(l) \in {"previous", "yourself"} -> 8
      [] Fold(l) \in {"disregard", "milligram"} -> 9
      [] Fold(l) = "administer" -> 10
      [] Fold(l) = "instructions" -> 12
      [] OTHER -> 1

\* the character counts of the words and fixed messages of the model
CharsOf ==
    [l \in LowerWords \cup DOMAIN Capitalised \cup DigitLexemes
             \cup {REDACTED, SAFE_ADVICE, REFUSAL} |-> WordChars(l)]

\* number of characters of a lexeme: white space and punctuation marks are
\* single characters
LexChars(l) == IF l \in DOMAIN CharsOf THEN CharsOf[l] ELSE 1

\* F applied to the value of e, e evaluated once
Bind(e, F(_)) == CHOOSE r \in { F(v) : v \in {e} } : TRUE

\* number of characters of the lexemes s[i..j]
RECURSIVE CharsBetween(_, _, _)
CharsBetween(s, i, j) ==
    IF i > j THEN 0 ELSE LexChars(s[i]) + CharsBetween(s, i + 1, j)

RECURSIVE Flatten(_)
Flatten(ss) == IF ss = <<>> THEN <<>> ELSE Head(ss) \o Flatten(Tail(ss))

\* the number of whole lexemes of s[i..] that fit into n characters
RECURSIVE FitCount(_, _, _)
FitCount(s, i, n) ==
    IF i > Len(s) \/ LexChars(s[i]) > n THEN 0
    ELSE 1 + FitCount(s, i + 1, n - LexChars(s[i]))

\* text[:n]: the whole lexemes that fit into n characters, and the number of
\* characters kept of the lexeme that is cut (0 when the cut falls on a boundary)
Sample(s, n) ==
    Bind(FitCount(s, 1, n), LAMBDA k :
      IF k = Len(s) THEN [text |-> s, cut |-> 0]
      ELSE [text |-> SubSeq(s, 1, k), cut |-> n - CharsBetween(s, 1, k)])

-----------------------------------------------------------------------------
(* Regular-expression primitives on lexeme sequences.  Positions are       *)
(* 1-based lexeme indices; an end position is the index after the match;   *)
(* 0 means no match.                                                       *)

\* \s* from position i
RECURSIVE SpaceEnd(_, _)
SpaceEnd(s, i) == IF i <= Len(s) /\ s[i] \in {" ", "\n"} THEN SpaceEnd(s, i + 1) ELSE i

\* the run of letters that starts at position i
RECURSIVE LettersEnd(_, _)
LettersEnd(s, i) == IF i <= Len(s) /\ IsLetters(s[i]) THEN LettersEnd(s, i + 1) ELSE i

\* the run of digits that starts at position i
RECURSIVE DigitsEnd(_, _)
DigitsEnd(s, i) == IF i <= Len(s) /\ IsDigits(s[i]) THEN DigitsEnd(s, i + 1) ELSE i

\* [A-Z][a-z]+ under IGNORECASE at position i: at least two letters, greedy
WordAt(s, i) ==
    LET e == LettersEnd(s, i)
    IN  IF e > i /\ CharsBetween(s, i, e - 1) >= 2 THEN e ELSE 0

\* (?:\s+[A-Z][a-z]+)* from position e
RECURSIVE MoreWords(_, _)
MoreWords(s, e) ==
    LET sp == SpaceEnd(s, e)
        w  == IF sp > e THEN WordAt(s, sp) ELSE 0
    IN  IF w > 0 THEN MoreWords(s, w) ELSE e

\* a literal phrase (lower-case lexemes, single blanks) at position i
LitAt(s, i, lits) ==
    /\ i + Len(lits) - 1 <= Len(s)
    /\ \A n \in 1..Len(lits) : Fold(s[i + n - 1]) = lits[n]

NoMatch == [g1 |-> 0, end |-> 0]

-----------------------------------------------------------------------------
(* Pattern library: src/src/guardrails.py, lines 61-86 *)

PII_PATTERNS == <<"patient_name", "honorific">>

PROMPT_INJECTION_PATTERNS ==
    <<"ignore_previous", "disregard_above", "you_are_now", "act_as">>

\* each keyword as the lexemes it is made of
TOXICITY_KEYWORDS ==
    << <<"idiot">>, <<"stupid">>, <<"useless">>, <<"kill", " ", "yourself">> >>

\* (patient\s*name\s*:\s*)([A-Z][a-z]+(?:\s+[A-Z][a-z]+)*) at position i
PatientNameAt(s, i) ==
    IF ~(i <= Len(s) /\ Fold(s[i]) = "patient") THEN NoMatch
    ELSE LET j == SpaceEnd(s, i + 1)
         IN  IF ~(j <= Len(s) /\ Fold(s[j]) = "name") THEN NoMatch
             ELSE LET c == SpaceEnd(s, j + 1)
                  IN  IF ~(c <= Len(s) /\ s[c] = ":") THEN NoMatch
                      ELSE LET n == SpaceEnd(s, c + 1)
                               w == WordAt(s, n)
                           IN  IF w = 0 THEN NoMatch
                               ELSE [g1 |-> n, end |-> MoreWords(s, w)]

\* (mr\.|mrs\.|ms\.)\s+[A-Z][a-z]+ at position i; letters may precede "mr"
HonorificAt(s, i) ==
    IF ~(i + 1 <= Len(s) /\ Fold(s[i]) \in {"mr", "mrs", "ms"} /\ s[i + 1] = ".")
    THEN NoMatch
    ELSE LET sp == SpaceEnd(s, i + 2)
             w  == IF sp > i + 2 THEN WordAt(s, sp) ELSE 0
         IN  IF w = 0 THEN NoMatch ELSE [g1 |-> i + 2, end |-> w]

PiiMatchAt(p, s, i) ==
    IF p = "patient_name" THEN PatientNameAt(s, i) ELSE HonorificAt(s, i)

\* pattern.search(sanitized)
PiiSearch(p, s) == \E i \in 1..Len(s) : PiiMatchAt(p, s, i).end > 0

\* pattern.sub(r"\1[REDACTED]", sanitized): every non-overlapping match,
\* left to right, becomes its group 1 followed by the marker
\* the substitution with "[REDACTED]" in place of r"\1[REDACTED]"
RECURSIVE PiiSubFrom_DropsPrefix(_, _, _)
PiiSubFrom_DropsPrefix(p, s, i) ==
    IF i > Len(s) THEN <<>>
    ELSE LET m == PiiMatchAt(p, s, i)
         IN  IF m.end > 0
             THEN <<REDACTED>> \o PiiSubFrom_DropsPrefix(p, s, m.end)
             ELSE <<s[i]>> \o PiiSubFrom_DropsPrefix(p, s, i + 1)

\* the substitution with count=1: only the first match is replaced
RECURSIVE PiiSubFrom_FirstOnly(_, _, _)
PiiSubFrom_FirstOnly(p, s, i) ==
    IF i > Len(s) THEN <<>>
    ELSE LET m == PiiMatchAt(p, s, i)
         IN  IF m.end > 0
             THEN SubSeq(s, i, m.g1 - 1) \o <<REDACTED>> \o SubSeq(s, m.end, Len(s))
             ELSE <<s[i]>> \o PiiSubFrom_FirstOnly(p, s, i + 1)

RECURSIVE PiiSubFrom(_, _, _)
PiiSubFrom(p, s, i) ==
    IF i > Len(s) THEN <<>>
    ELSE LET m == PiiMatchAt(p, s, i)
         IN  IF m.end > 0
             THEN SubSeq(s, i, m.g1 - 1) \o <<REDACTED>> \o PiiSubFrom(p, s, m.end)
             ELSE <<s[i]>> \o PiiSubFrom(p, s, i + 1)

PiiSub(p, s) == PiiSubFrom(p, s, 1)

\* the word after "you are now " / "act as " starts with a, an or the
StartsArticle(l) == Fold(l) \in {"a", "an", "the", "all", "above", "are", "act", "as", "administer"}

\* first lexeme of each prompt-injection pattern
InjectionHead(p) ==
    CASE p = "ignore_previous" -> "ignore"
      [] p = "disregard_above" -> "disregard"
      [] p = "you_are_now"     -> "you"
      [] p = "act_as"          -> "act"

InjectionAt(p, s, i) ==
    /\ Fold(s[i]) = InjectionHead(p)
    /\ CASE p = "ignore_previous" ->
              \/ LitAt(s, i, <<"ignore", " ", "previous", " ", "instructions">>)
              \/ LitAt(s, i, <<"ignore", " ", "all", " ", "previous", " ", "instructions">>)
         [] p = "disregard_above" ->
              LitAt(s, i, <<"disregard", " ", "the", " ", "above">>)
         [] p = "you_are_now" ->
              /\ LitAt(s, i, <<"you", " ", "are", " ", "now", " ">>)
              /\ i + 6 <= Len(s) /\ StartsArticle(s[i + 6])
         [] p = "act_as" ->
              /\ LitAt(s, i, <<"act", " ", "as", " ">>)
              /\ i + 4 <= Len(s) /\ StartsArticle(s[i + 4])

InjectionSearch(p, s) == \E i \in 1..Len(s) : InjectionAt(p, s, i)

-----------------------------------------------------------------------------
(* GuardrailsEngine: src/src/guardrails.py, lines 89-226 *)

InputSampleLen == 120

OutputSampleLen == 200

\* GuardrailsEngine.__init__: self.endpoint = endpoint or "unknown"
EngineEndpoint(endpoint) == IF endpoint = "" THEN "unknown" ELSE endpoint

GuardrailEvent(stage, rule, severity, before, after, n, endpoint) ==
    [stage |-> stage, rule |-> rule, severity |-> severity,
     original_text_sample |-> Sample(before, n),
     sanitized_text_sample |-> Sample(after, n),
     endpoint |-> endpoint]

\* _log_event without the try/except around record_guardrail_event
LogEvent_Propagates(st, ev, telemetry) ==
    [st EXCEPT !.calls = Append(@, [endpoint |-> ev.endpoint,
                                    stage |-> ev.stage,
                                    rule |-> ev.rule]),
               !.raised = @ \/ telemetry = "raises"]

\* _log_event giving up on record_guardrail_event once it has raised
LogEvent_StopsAfterFailure(st, ev, telemetry) ==
    IF telemetry # "ok" /\ Len(st.calls) > 0 THEN st
    ELSE [st EXCEPT !.calls = Append(@, [endpoint |-> ev.endpoint,
                                         stage |-> ev.stage,
                                         rule |-> ev.rule])]

\* _log_event: the event is logged, record_guardrail_event is called once and
\* whatever it raises is swallowed.  telemetry "raises": every invocation
\* raises; "flaky": the first, third, ... invocation of the call raises
LogEvent(st, ev, telemetry) ==
    LET threw  == \/ telemetry = "raises"
                  \/ telemetry = "flaky" /\ Len(st.calls) % 2 = 0
        caught == threw                      \* except Exception: pass
    IN  [st EXCEPT !.calls = Append(@, [endpoint |-> ev.endpoint,
                                        stage |-> ev.stage,
                                        rule |-> ev.rule]),
                   !.raised = @ \/ (threw /\ ~caught)]

\* the PII iteration without "if not match: continue"
PiiStep_NoContinue(p, st, endpoint, telemetry) ==
    Bind(PiiSub(p, st.text), LAMBDA sanitized :
      LET event == GuardrailEvent("input", "pii_redaction", "warning",
                                  st.text, sanitized, InputSampleLen, endpoint)
      IN  LogEvent([st EXCEPT !.text = sanitized, !.events = Append(@, event)],
                   event, telemetry))

\* one iteration of the PII loop of validate_input
PiiStep(p, st, endpoint, telemetry) ==
    IF ~PiiSearch(p, st.text) THEN st
    ELSE Bind(PiiSub(p, st.text), LAMBDA sanitized :
           Bind(GuardrailEvent("input", "pii_redaction", "warning",
                               st.text, sanitized, InputSampleLen, endpoint),
                LAMBDA event :
                  LogEvent([st EXCEPT !.text = sanitized, !.events = Append(@, event)],
                           event, telemetry)))

\* the injection iteration blanking the text it reports
InjectionStep_Rewrites(p, st, endpoint, telemetry) ==
    IF ~InjectionSearch(p, st.text) THEN st
    ELSE LET event == GuardrailEvent("input", "prompt_injection_heuristic", "warning",
                                     st.text, <<REDACTED>>, InputSampleLen, endpoint)
         IN  LogEvent([st EXCEPT !.text = <<REDACTED>>, !.events = Append(@, event)],
                      event, telemetry)

\* the injection iteration with one event for every occurrence of the pattern
InjectionStep_PerOccurrence(p, st, endpoint, telemetry) ==
    LET hits  == {i \in 1..Len(st.text) : InjectionAt(p, st.text, i)}
        event == GuardrailEvent("input", "prompt_injection_heuristic", "warning",
                                st.text, st.text, InputSampleLen, endpoint)
        call  == [endpoint |-> endpoint, stage |-> "input",
                  rule |-> "prompt_injection_heuristic"]
    IN  [st EXCEPT !.events = @ \o [n \in 1..Cardinality(hits) |-> event],
                   !.calls  = @ \o [n \in 1..Cardinality(hits) |-> call]]

\* one iteration of the prompt-injection loop of validate_input
InjectionStep(p, st, endpoint, telemetry) ==
    IF ~InjectionSearch(p, st.text) THEN st
    ELSE Bind(GuardrailEvent("input", "prompt_injection_heuristic", "warning",
                             st.text, st.text, InputSampleLen, endpoint),
              LAMBDA event :
                LogEvent([st EXCEPT !.events = Append(@, event)], event, telemetry))

RECURSIVE PiiLoop(_, _, _, _)
PiiLoop(ps, st, endpoint, telemetry) ==
    IF ps = <<>> THEN st
    ELSE Bind(PiiStep(Head(ps), st, endpoint, telemetry),
              LAMBDA nx : PiiLoop(Tail(ps), nx, endpoint, telemetry))

RECURSIVE InjectionLoop(_, _, _, _)
InjectionLoop(ps, st, endpoint, telemetry) ==
    IF ps = <<>> THEN st
    ELSE Bind(InjectionStep(Head(ps), st, endpoint, telemetry),
              LAMBDA nx : InjectionLoop(Tail(ps), nx, endpoint, telemetry))

NewResult(text) == [text |-> text, events |-> <<>>, calls |-> <<>>, raised |-> FALSE]

\* the text of validate_input after its PII loop
RedactPii(text, endpoint, telemetry) ==
    PiiLoop(PII_PATTERNS, NewResult(text), endpoint, telemetry)

\* validate_input with its two loops exchanged: injection scan on the original
\* text, PII redaction afterwards
validate_input_InjectionFirst(text, endpoint, telemetry) ==
    Bind(InjectionLoop(PROMPT_INJECTION_PATTERNS, NewResult(text), endpoint, telemetry),
         LAMBDA st : PiiLoop(PII_PATTERNS, st, endpoint, telemetry))

validate_input(text, endpoint, telemetry) ==
    Bind(RedactPii(text, endpoint, telemetry),
         LAMBDA st : InjectionLoop(PROMPT_INJECTION_PATTERNS, st, endpoint, telemetry))

\* \b(?:take|give|administer)\s+\d+\s*(?:mg|milligram|mcg|g)\b.* at position i:
\* the index after the match, which runs to the end of the line; 0 = no match
RECURSIVE LineEnd(_, _)
LineEnd(s, i) == IF i <= Len(s) /\ s[i] # "\n" THEN LineEnd(s, i + 1) ELSE i

DosageAt(s, i) ==
    IF ~(/\ i <= Len(s)
         /\ Fold(s[i]) \in {"take", "give", "administer"}
         /\ (i = 1 \/ ~(IsLetters(s[i - 1]) \/ IsDigits(s[i - 1]))))
    THEN 0
    ELSE LET sp == SpaceEnd(s, i + 1)
             d  == IF sp > i + 1 THEN DigitsEnd(s, sp) ELSE sp
             u  == SpaceEnd(s, d)
         IN  IF /\ sp > i + 1
                /\ d > sp
                /\ u <= Len(s)
                /\ Fold(s[u]) \in {"mg", "milligram", "mcg", "g"}
                /\ (u = Len(s) \/ ~(\/ IsLetters(s[u + 1]) \/ IsDigits(s[u + 1])
                                    \/ s[u + 1] \in {SAFE_ADVICE, REFUSAL}))
             THEN LineEnd(s, u + 1)
             ELSE 0

\* DOSAGE_PATTERN.search(sanitized): position of the leftmost match, 0 = none
DosageSearch(s) ==
    IF \E i \in 1..Len(s) : DosageAt(s, i) > 0
    THEN CHOOSE i \in 1..Len(s) :
            DosageAt(s, i) > 0 /\ \A j \in 1..(i - 1) : DosageAt(s, j) = 0
    ELSE 0

IsAt(s, i, old) ==
    i + Len(old) - 1 <= Len(s) /\ SubSeq(s, i, i + Len(old) - 1) = old

\* str.replace(old, new): every non-overlapping occurrence, left to right,
\* compared case-sensitively
RECURSIVE ReplaceFrom(_, _, _, _)
ReplaceFrom(s, i, old, new) ==
    IF i > Len(s) THEN <<>>
    ELSE IF IsAt(s, i, old) THEN new \o ReplaceFrom(s, i + Len(old), old, new)
    ELSE <<s[i]>> \o ReplaceFrom(s, i + 1, old, new)

StrReplace(s, old, new) == ReplaceFrom(s, 1, old, new)

\* any(keyword in sanitized.lower() for keyword in TOXICITY_KEYWORDS)
AnyToxicKeyword(s) ==
    \E n \in 1..Len(TOXICITY_KEYWORDS) :
       \E i \in 1..Len(s) : LitAt(s, i, TOXICITY_KEYWORDS[n])

\* dosage block of moderate_output (lines 150-175)
DosageStep(st, endpoint, telemetry) ==
    Bind(DosageSearch(st.text), LAMBDA at :
      IF at = 0 THEN st
      ELSE LET before == st.text
           IN  Bind(SubSeq(before, at, DosageAt(before, at) - 1), LAMBDA unsafe_segment :
                 Bind(StrReplace(before, unsafe_segment, <<SAFE_ADVICE>>), LAMBDA sanitized :
                   Bind(GuardrailEvent("output", "block_medication_dosage",
                                       "blocking", before, sanitized,
                                       OutputSampleLen, endpoint),
                        LAMBDA event :
                          LogEvent([st EXCEPT !.text = sanitized,
                                              !.events = Append(@, event)],
                                   event, telemetry)))))

\* the toxicity block scanning the text without .lower()
ToxicityStep_CaseSensitive(st, endpoint, telemetry) ==
    IF ~(\E n \in 1..Len(TOXICITY_KEYWORDS) :
            \E i \in 1..Len(st.text) : IsAt(st.text, i, TOXICITY_KEYWORDS[n]))
    THEN st
    ELSE LET event == GuardrailEvent("output", "toxicity_filter", "blocking",
                                     st.text, <<REFUSAL>>, OutputSampleLen, endpoint)
         IN  LogEvent([st EXCEPT !.text = <<REFUSAL>>, !.events = Append(@, event)],
                      event, telemetry)

\* toxicity block of moderate_output (lines 177-197)
ToxicityStep(st, endpoint, telemetry) ==
    IF ~AnyToxicKeyword(st.text) THEN st
    ELSE LET before    == st.text
             sanitized == <<REFUSAL>>
         IN  Bind(GuardrailEvent("output", "toxicity_filter", "blocking",
                                 before, sanitized, OutputSampleLen, endpoint),
                  LAMBDA event :
                    LogEvent([st EXCEPT !.text = sanitized, !.events = Append(@, event)],
                             event, telemetry))

\* moderate_output with its two blocks exchanged: toxicity scan on the original
\* text, dosage replacement afterwards
moderate_output_ToxicityFirst(text, endpoint, telemetry) ==
    Bind(ToxicityStep(NewResult(text), endpoint, telemetry),
         LAMBDA st : DosageStep(st, endpoint, telemetry))

moderate_output(text, endpoint, telemetry) ==
    Bind(DosageStep(NewResult(text), endpoint, telemetry),
         LAMBDA st : ToxicityStep(st, endpoint, telemetry))

-----------------------------------------------------------------------------
(* Inputs of the guardrail calls *)

\* building blocks of the user questions given to validate_input
InputBlocks ==
    { <<"Patient", " ", "Name", ":", " ", "John">>,
      <<"Mr", ".", " ", "John">>,
      <<"Mr", ".">>,
      <<" ">>,
      <<"John">>,
      <<"ignore", " ", "previous", " ", "instructions">>,
      <<"ignore", " ", "all", " ", "previous", " ", "instructions">>,
      <<"disregard", " ", "the", " ", "above">>,
      <<"you", " ", "are", " ", "now", " ", "the">>,
      <<"act", " ", "as", " ", "a">> }

\* building blocks of the generated answers given to moderate_output
OutputBlocks ==
    { <<"Take", " ", "50", " ", "mg">>,
      <<"give", " ", "5", "mcg">>,
      <<" ">>,
      <<"\n">>,
      <<"Idiot">>,
      <<"kill", " ", "yourself">>,
      <<"mis">> }

\* the texts made of at most n blocks
TextsOf(blocks, n) ==
    { Flatten(f) : f \in UNION { [1..m -> blocks] : m \in 0..n } }

\* endpoint argument of the engine and behaviour of record_guardrail_event
GuardEnvs ==
    { [endpoint |-> "chat", telemetry |-> "ok"],
      [endpoint |-> "chat", telemetry |-> "raises"],
      [endpoint |-> "",     telemetry |-> "ok"],
      [endpoint |-> "",     telemetry |-> "flaky"] }

\* the calls of the model: every text of n blocks on an engine whose
\* telemetry raises (wide), the texts of one block less on every engine
GuardCalls(blocks, n, wide) ==
    IF wide
    THEN { [text |-> t, env |-> [endpoint |-> "chat", telemetry |-> "raises"]] :
              t \in TextsOf(blocks, n) }
    ELSE { [text |-> t, env |-> e] : t \in TextsOf(blocks, n - 1), e \in GuardEnvs }

NoResult == [text |-> <<>>, events |-> <<>>]

-----------------------------------------------------------------------------
(* Guardrail calls *)

GuardInit ==
    /\ gOp = "none"
    /\ gPass = 0
    /\ gEndpoint = ""
    /\ gTelemetry = "ok"
    /\ gInput = <<>>
    /\ gText = <<>>
    /\ gEvents = <<>>
    /\ gMetricCalls = <<>>
    /\ gRaised = FALSE
    /\ gPrev = NoResult

\* apply_guardrails_to_input(text, endpoint)
ValidateInput ==
    /\ gOp = "none"
    /\ \E wide \in BOOLEAN : \E c \in GuardCalls(InputBlocks, MaxInSegs, wide) :
          \E r \in {validate_input(c.text, EngineEndpoint(c.env.endpoint), c.env.telemetry)} :
              /\ gOp' = "validate_input"
              /\ gPass' = 1
              /\ gEndpoint' = c.env.endpoint
              /\ gTelemetry' = c.env.telemetry
              /\ gInput' = c.text
              /\ gText' = r.text
              /\ gEvents' = r.events
              /\ gMetricCalls' = r.calls
              /\ gRaised' = r.raised
              /\ gPrev' = NoResult
              /\ UNCHANGED <<rvars, cvars, svars, pvars, mvars>>

\* validate_input called again on the text it returned
RevalidateInput ==
    /\ gOp = "validate_input"
    /\ gPass = 1
    /\ ~gRaised
    /\ \E r \in {validate_input(gText, EngineEndpoint(gEndpoint), gTelemetry)} :
           /\ gPass' = 2
           /\ gInput' = gText
           /\ gText' = r.text
           /\ gEvents' = r.events
           /\ gMetricCalls' = r.calls
           /\ gRaised' = r.raised
           /\ gPrev' = [text |-> gText, events |-> gEvents]
           /\ UNCHANGED <<gOp, gEndpoint, gTelemetry>>
           /\ UNCHANGED <<rvars, cvars, svars, pvars, mvars>>

\* apply_guardrails_to_output(text, endpoint)
ModerateOutput ==
    /\ gOp = "none"
    /\ \E wide \in BOOLEAN : \E c \in GuardCalls(OutputBlocks, MaxOutSegs, wide) :
          \E r \in {moderate_output(c.text, EngineEndpoint(c.env.endpoint), c.env.telemetry)} :
              /\ gOp' = "moderate_output"
              /\ gPass' = 1
              /\ gEndpoint' = c.env.endpoint
              /\ gTelemetry' = c.env.telemetry
              /\ gInput' = c.text
              /\ gText' = r.text
              /\ gEvents' = r.events
              /\ gMetricCalls' = r.calls
              /\ gRaised' = r.raised
              /\ gPrev' = NoResult
              /\ UNCHANGED <<rvars, cvars, svars, pvars, mvars>>

-----------------------------------------------------------------------------
(* RAG engine: optional values, diagnosis maps, vector store *)

\* Optional[T]: None is the empty tuple, a value v is the one-element tuple
None == <<>>

Some(v) == <<v>>

\* dict.get(key, default)
DictGet(m, key, default) == IF key \in DOMAIN m THEN m[key] ELSE default

DIAGNOSIS_SEARCH_MAP ==
    [ NORM |-> <<"normal sinus rhythm", "normal ECG", "healthy heart">>,
      MI   |-> <<"myocardial infarction", "heart attack", "MI", "coronary">>,
      STTC |-> <<"ST-T changes", "ischemia", "ST segment", "T wave">>,
      CD   |-> <<"conduction disturbance", "bundle branch block", "AV block">>,
      HYP  |-> <<"hypertrophy", "LVH", "left ventricular", "thickened heart">> ]

DIAGNOSIS_PDF_MAP ==
    [ NORM |-> <<"General_ECG_Guide.pdf">>,
      MI   |-> <<"MI_Recovery_Guide.pdf">>,
      STTC |-> <<"STTC_Ischemia_Guide.pdf">>,
      CD   |-> <<"Conduction_Disturbance_Guide.pdf">>,
      HYP  |-> <<"Hypertrophy_Management.pdf">> ]

\* str.lower() on the strings the explainer lower-cases
Lower(x) ==
    CASE x = "XX" -> "xx"
      [] x = "Male" -> "male"
      [] x = "Your ECG shows a normal rhythm. This is a good sign, indicating that your heart's electrical activity is functioning normally. Continue with regular check-ups and maintain a healthy lifestyle."
           -> "your ecg shows a normal rhythm. this is a good sign, indicating that your heart's electrical activity is functioning normally. continue with regular check-ups and maintain a healthy lifestyle."
      [] x = "Your ECG indicates signs of Myocardial Infarction (heart attack). This is a serious condition that requires immediate medical attention. Please consult with a cardiologist urgently for proper evaluation and treatment."
           -> "your ecg indicates signs of myocardial infarction (heart attack). this is a serious condition that requires immediate medical attention. please consult with a cardiologist urgently for proper evaluation and treatment."
      [] x = "Your ECG shows ST-T changes, which may indicate ischemia (reduced blood flow to the heart). This requires medical evaluation. Please consult with a cardiologist to determine the cause and appropriate treatment."
           -> "your ecg shows st-t changes, which may indicate ischemia (reduced blood flow to the heart). this requires medical evaluation. please consult with a cardiologist to determine the cause and appropriate treatment."
      [] x = "Your ECG shows a conduction disturbance, which means there may be an issue with how electrical signals travel through your heart. Please consult with a cardiologist for further evaluation and management."
           -> "your ecg shows a conduction disturbance, which means there may be an issue with how electrical signals travel through your heart. please consult with a cardiologist for further evaluation and management."
      [] x = "Your ECG indicates signs of hypertrophy (thickening of the heart muscle). This may be related to high blood pressure or other conditions. Please consult with a cardiologist for proper evaluation and treatment recommendations."
           -> "your ecg indicates signs of hypertrophy (thickening of the heart muscle). this may be related to high blood pressure or other conditions. please consult with a cardiologist for proper evaluation and treatment recommendations."
      [] x = "Your ECG shows " -> "your ecg shows "
      [] x = ". Please consult with a cardiologist for detailed interpretation."
           -> ". please consult with a cardiologist for detailed interpretation."
      [] OTHER -> x

\* a query builder that folds the sex into the terms
build_search_query_WithSex(diagnosis, age, sex) ==
    DictGet(DIAGNOSIS_SEARCH_MAP, diagnosis, <<Lower(diagnosis)>>) \o sex

\* _build_search_query: the terms joined by " "
build_search_query(diagnosis, age, sex) ==
    LET base_terms == DictGet(DIAGNOSIS_SEARCH_MAP, diagnosis, <<Lower(diagnosis)>>)
        age_terms  == IF age # None /\ age[1] # 0
                      THEN IF age[1] < 30 THEN <<"young adult">>
                           ELSE IF age[1] < 50 THEN <<"middle-aged">>
                           ELSE <<"elderly">>
                      ELSE <<>>
    IN  base_terms \o age_terms

\* s[:n]
Take(s, n) == SubSeq(s, 1, IF n < Len(s) THEN n ELSE Len(s))

\* the search query of _retrieve_context: the parts joined by " "
SearchQuery(diagnosis, age, sex, user_question) ==
    IF user_question # None /\ user_question # Some("")
    THEN LET diagnosis_terms == DictGet(DIAGNOSIS_SEARCH_MAP, diagnosis, <<>>)
         IN  IF diagnosis_terms # <<>>
             THEN user_question \o Take(diagnosis_terms, 2)
             ELSE user_question
    ELSE build_search_query(diagnosis, age, sex)

\* which calls of the vector store raise, and what: "none", "TypeError"
\* (the keyword argument is not accepted) or "Exception" (any other error)
StoreFault(mode, api) ==
    CASE mode = "ok"                 -> "none"
      [] mode = "where_unsupported"  -> IF api = "where" THEN "TypeError" ELSE "none"
      [] mode = "filter_unsupported" -> IF api \in {"where", "filter"} THEN "TypeError" ELSE "none"
      [] mode = "filtered_down"      -> IF api \in {"where", "filter"} THEN "Exception" ELSE "none"
      [] mode = "scored_down"        -> IF api = "plain" THEN "none" ELSE "Exception"
      [] mode = "plain_down"         -> IF api = "plain" THEN "Exception" ELSE "none"
      [] mode = "all_down"           -> "Exception"

\* one call of self.vectorstore, as the store sees it
StoreCall(api, query, k, source_file) ==
    [api |-> api, query |-> query, k |-> k, source_file |-> source_file]

\* the chunks a store may hold: metadata["source_file"], length of the
\* stripped page_content, the irrelevant keywords the lower-cased
\* page_content contains, and the distance the store reports
Chunk(id, source_file, chars, keywords, score) ==
    [id |-> id, source_file |-> source_file, chars |-> chars,
     keywords |-> keywords, score |-> score]

Chunks ==
    { Chunk("a", "MI_Recovery_Guide.pdf", 80, {}, Some(1)),
      Chunk("b", "MI_Recovery_Guide.pdf", 80, {}, Some(2)),
      Chunk("c", "General_ECG_Guide.pdf", 80, {}, Some(1)),
      Chunk("d", "MI_Recovery_Guide.pdf", 10, {}, Some(1)),
      Chunk("e", "MI_Recovery_Guide.pdf", 80, {"copyright"}, Some(1)),
      Chunk("f", "MI_Recovery_Guide.pdf", 80, {}, None),
      Chunk("g", "General_ECG_Guide.pdf", 80, {}, None) }

-----------------------------------------------------------------------------
(* RAG engine: _retrieve_context *)

\* chunks shorter than this are skipped
MinChunkChars == 50

\* "(c)" stands for the copyright sign
irrelevant_keywords == {"copyright", "(c)", "all rights reserved", "wolters kluwer"}

Range(s) == { s[i] : i \in 1..Len(s) }

\* the iteration without the handler of "except Exception as pdf_error": a
\* failed filtered search contributes nothing and no other search is tried
SearchPdf_NoFallback(st, pdf_name, query, k, store, mode) ==
    LET c1 == StoreCall("where", query, k * 2, pdf_name)
        c2 == StoreCall("filter", query, k * 2, pdf_name)
        f1 == StoreFault(mode, "where")
        f2 == StoreFault(mode, "filter")
    IN  IF f1 = "none"
        THEN [all |-> st.all \o store, calls |-> st.calls \o <<c1>>]
        ELSE IF f1 = "TypeError" /\ f2 = "none"
        THEN [all |-> st.all \o store, calls |-> st.calls \o <<c1, c2>>]
        ELSE [all |-> st.all,
              calls |-> st.calls \o (IF f1 = "TypeError" THEN <<c1, c2>> ELSE <<c1>>)]

\* one iteration of "for pdf_name in relevant_pdfs"
SearchPdf(st, pdf_name, query, k, store, mode) ==
    LET c1 == StoreCall("where", query, k * 2, pdf_name)
        c2 == StoreCall("filter", query, k * 2, pdf_name)
        c3 == StoreCall("unfiltered", query, k * 5, "")
        f1 == StoreFault(mode, "where")
        f2 == StoreFault(mode, "filter")
        f3 == StoreFault(mode, "unfiltered")
    IN  IF f1 = "none"
        THEN [all |-> st.all \o store, calls |-> st.calls \o <<c1>>]
        ELSE IF f1 = "TypeError" /\ f2 = "none"
        THEN [all |-> st.all \o store, calls |-> st.calls \o <<c1, c2>>]
        ELSE [all   |-> IF f3 = "none"
                        THEN st.all \o SelectSeq(store, LAMBDA d : d.source_file = pdf_name)
                        ELSE st.all,
              calls |-> st.calls \o (IF f1 = "TypeError" THEN <<c1, c2, c3>>
                                                         ELSE <<c1, c3>>)]

RECURSIVE SearchPdfs(_, _, _, _, _, _)
SearchPdfs(st, pdfs, query, k, store, mode) ==
    IF pdfs = <<>> THEN st
    ELSE SearchPdfs(SearchPdf(st, Head(pdfs), query, k, store, mode),
                    Tail(pdfs), query, k, store, mode)

\* list.sort(key=score) compares the keys: None is not comparable
SortRaises(all) == Len(all) >= 2 /\ \E i \in 1..Len(all) : all[i].score = None

\* insertion keeping the order of equal scores (list.sort is stable)
InsertByScore(sorted, d) ==
    LET p == Cardinality({ i \in 1..Len(sorted) : sorted[i].score[1] <= d.score[1] })
    IN  SubSeq(sorted, 1, p) \o <<d>> \o SubSeq(sorted, p + 1, Len(sorted))

RECURSIVE SortByScore(_, _)
SortByScore(all, n) ==
    IF n = 0 THEN <<>>
    ELSE InsertByScore(SortByScore(all, n - 1), all[n])

\* the three conditions of the verification loop, without the source check
Verified_NoSourceCheck(d, relevant_pdfs) ==
    /\ d.chars >= MinChunkChars
    /\ d.keywords \cap irrelevant_keywords = {}

\* the three conditions of the verification loop and of the backfill loop
Verified(d, relevant_pdfs) ==
    /\ d.source_file \in Range(relevant_pdfs)
    /\ d.chars >= MinChunkChars
    /\ d.keywords \cap irrelevant_keywords = {}

\* "take more from the original list": all[i..] until k are verified
RECURSIVE Backfill(_, _, _, _, _)
Backfill(verified, all, i, k, relevant_pdfs) ==
    IF i > Len(all) \/ Len(verified) >= k THEN verified
    ELSE Backfill(IF Verified(all[i], relevant_pdfs)
                  THEN Append(verified, all[i]) ELSE verified,
                  all, i + 1, k, relevant_pdfs)

\* the mapped branch after the per-source searches: sort, top k, verify, backfill
SelectVerified(all, k, relevant_pdfs) ==
    LET sorted   == SortByScore(all, Len(all))
        top      == Take(sorted, k)
        verified == SelectSeq(top, LAMBDA d : Verified(d, relevant_pdfs))
        more     == IF Len(verified) < k /\ Len(sorted) > Len(top)
                    THEN Backfill(verified, sorted, Len(top) + 1, k, relevant_pdfs)
                    ELSE verified
    IN  Take(more, k)

\* the handler of "except Exception as e": similarity_search and manual filter
OuterFallback(calls, query, k, store, mode, relevant_pdfs) ==
    LET c == StoreCall("plain", query, k * 5, "")
        filtered == IF relevant_pdfs # <<>>
                    THEN SelectSeq(store, LAMBDA d : d.source_file \in Range(relevant_pdfs))
                    ELSE store
        docs == Take(filtered, k)
    IN  IF StoreFault(mode, "plain") # "none"
        THEN [docs |-> <<>>, calls |-> Append(calls, c)]
        ELSE [docs  |-> [i \in 1..Len(docs) |-> [docs[i] EXCEPT !.score = None]],
              calls |-> Append(calls, c)]

\* "[Source: <source_file>]\n<page_content>" for each document kept
ContextParts(docs) ==
    [i \in 1..Len(docs) |-> [source |-> docs[i].source_file, content |-> docs[i].id]]

retrieve_context(diagnosis, age, sex, k, user_question, store, mode) ==
    LET relevant_pdfs == DictGet(DIAGNOSIS_PDF_MAP, diagnosis, <<>>)
        query == SearchQuery(diagnosis, age, sex, user_question)
    IN  IF relevant_pdfs # <<>>
        THEN Bind(SearchPdfs([all |-> <<>>, calls |-> <<>>], relevant_pdfs, query, k, store, mode),
                  LAMBDA st :
                    IF SortRaises(st.all)
                    THEN Bind(OuterFallback(st.calls, query, k, store, mode, relevant_pdfs),
                              LAMBDA fb : [context |-> ContextParts(fb.docs), docs |-> fb.docs,
                                           calls |-> fb.calls, query |-> query, raised |-> FALSE])
                    ELSE Bind(SelectVerified(st.all, k, relevant_pdfs),
                              LAMBDA docs : [context |-> ContextParts(docs), docs |-> docs,
                                             calls |-> st.calls, query |-> query, raised |-> FALSE]))
        ELSE IF StoreFault(mode, "unfiltered") = "none"
        THEN [context |-> ContextParts(store), docs |-> store,
              calls |-> <<StoreCall("unfiltered", query, k, "")>>,
              query |-> query, raised |-> FALSE]
        ELSE Bind(OuterFallback(<<StoreCall("unfiltered", query, k, "")>>, query, k, store, mode, relevant_pdfs),
                  LAMBDA fb : [context |-> ContextParts(fb.docs), docs |-> fb.docs,
                               calls |-> fb.calls, query |-> query, raised |-> FALSE])

-----------------------------------------------------------------------------
(* RAG engine: generate_explanation *)

\* self.llm_task as ECGExplainer.__init__ sets it
llm_task == "text-generation"

explanations ==
    [ NORM |-> <<"Your ECG shows a normal rhythm. This is a good sign, indicating that your heart's electrical activity is functioning normally. Continue with regular check-ups and maintain a healthy lifestyle.">>,
      MI   |-> <<"Your ECG indicates signs of Myocardial Infarction (heart attack). This is a serious condition that requires immediate medical attention. Please consult with a cardiologist urgently for proper evaluation and treatment.">>,
      STTC |-> <<"Your ECG shows ST-T changes, which may indicate ischemia (reduced blood flow to the heart). This requires medical evaluation. Please consult with a cardiologist to determine the cause and appropriate treatment.">>,
      CD   |-> <<"Your ECG shows a conduction disturbance, which means there may be an issue with how electrical signals travel through your heart. Please consult with a cardiologist for further evaluation and management.">>,
      HYP  |-> <<"Your ECG indicates signs of hypertrophy (thickening of the heart muscle). This may be related to high blood pressure or other conditions. Please consult with a cardiologist for proper evaluation and treatment recommendations.">> ]

\* _generate_fallback_explanation
generate_fallback_explanation(diagnosis, age, sex) ==
    LET base_explanation ==
            DictGet(explanations, diagnosis,
                    <<"Your ECG shows ", diagnosis,
                      ". Please consult with a cardiologist for detailed interpretation.">>)
    IN  IF (age # None /\ age # Some(0)) \/ (sex # None /\ sex # Some(""))
        THEN <<" ", "For a ",
               IF age # None /\ age # Some(0) THEN (CASE age[1] = 25 -> "25" [] age[1] = 40 -> "40"
                            [] age[1] = 60 -> "60" [] OTHER -> "0")
               ELSE "patient",
               "-year-old ",
               IF sex # None /\ sex # Some("") THEN Lower(sex[1]) ELSE "patient",
               ",", " ">>
             \o [i \in 1..Len(base_explanation) |-> Lower(base_explanation[i])]
        ELSE base_explanation

\* str.strip()
RECURSIVE LStrip(_)
LStrip(s) == IF s # <<>> /\ Head(s) \in {" ", "\n"} THEN LStrip(Tail(s)) ELSE s

RECURSIVE RStrip(_)
RStrip(s) ==
    IF s # <<>> /\ s[Len(s)] \in {" ", "\n"} THEN RStrip(SubSeq(s, 1, Len(s) - 1)) ELSE s

Strip(s) == RStrip(LStrip(s))

\* the prompt echo the clean-up removes
PROMPT_ECHO == "Your explanation:"

\* the clean-up of the reply: strip, then drop every prompt echo when the
\* text starts with one, then strip again
CleanUp(explanation) ==
    LET stripped == Strip(explanation)
    IN  IF stripped # <<>> /\ Head(stripped) = PROMPT_ECHO
        THEN Strip(SelectSeq(stripped, LAMBDA l : l # PROMPT_ECHO))
        ELSE stripped

\* texts a reply of the generation model may carry
ReplyTexts ==
    { <<>>,
      <<" ">>,
      <<"reply">>,
      <<" ", "reply", "\n">>,
      <<PROMPT_ECHO, " ", "reply">>,
      <<"reply", " ", PROMPT_ECHO>> }

\* what self.llm.invoke(prompt) does: raises, or returns a str, an object
\* with a content attribute (a str, None, or a list of content blocks), a
\* dict with or without "generated_text", a list of candidates, or any
\* other object
LlmReplies ==
    { [kind |-> "raises", text |-> <<>>] }
      \cup { [kind |-> kd, text |-> t] :
                kd \in {"str", "content", "generated_text", "candidates"},
                t \in ReplyTexts }
      \cup { [kind |-> kd, text |-> <<>>] :
                kd \in {"content_none", "content_blocks", "dict", "object"} }

\* str(response) of a reply that is no str
ReprOf(reply) == <<"repr(", reply.kind, ")">>

\* lines 490-522: the text extracted from the reply; "llm_error" when the
\* inner try raises (invoke raises, or len(explanation) has no meaning);
\* text = "unstrippable" marks a value without a strip() method
Extract(reply) ==
    IF reply.kind = "raises" THEN [outcome |-> "llm_error", text |-> <<>>]
    ELSE IF llm_task = "conversational"
    THEN CASE reply.kind \in {"content", "content_none", "content_blocks"} ->
                 IF reply.kind = "content" THEN [outcome |-> "text", text |-> reply.text]
                 ELSE IF reply.kind = "content_none" THEN [outcome |-> "llm_error", text |-> <<>>]
                 ELSE [outcome |-> "unstrippable", text |-> <<>>]
           [] reply.kind = "generated_text" -> [outcome |-> "text", text |-> reply.text]
           [] OTHER -> [outcome |-> "text", text |-> ReprOf(reply)]
    ELSE CASE reply.kind = "str" -> [outcome |-> "text", text |-> reply.text]
           [] reply.kind = "content" -> [outcome |-> "text", text |-> reply.text]
           [] reply.kind = "content_none" -> [outcome |-> "llm_error", text |-> <<>>]
           [] reply.kind = "content_blocks" -> [outcome |-> "unstrippable", text |-> <<>>]
           [] reply.kind = "generated_text" -> [outcome |-> "text", text |-> reply.text]
           [] OTHER -> [outcome |-> "text", text |-> ReprOf(reply)]

\* generate_explanation
generate_explanation(diagnosis, age, sex, k_retrieval, store, mode, reply) ==
    LET ctx == retrieve_context(diagnosis, age, sex, k_retrieval, None, store, mode)
        got == Extract(reply)
    IN  [ctx |-> ctx, raised |-> FALSE,
         result |->
           IF got.outcome = "unstrippable"
           THEN [explanation |-> generate_fallback_explanation(diagnosis, age, sex),
                 diagnosis |-> diagnosis, age |-> age, sex |-> sex,
                 error |-> "'list' object has no attribute 'strip'",
                 fallback |-> TRUE]
           ELSE [explanation |->
                    CleanUp(IF got.outcome = "llm_error"
                            THEN generate_fallback_explanation(diagnosis, age, sex)
                            ELSE got.text),
                 diagnosis |-> diagnosis, age |-> age, sex |-> sex,
                 retrieved_sources |-> k_retrieval]]

-----------------------------------------------------------------------------
(* Inputs of the explainer calls *)

\* number of chunks a vector store answers with
MaxStoreDocs == 3

\* number of chunks the store answers with in a generate_explanation call
MaxExplainDocs == 1

SeqsUpTo(S, n) == UNION { [1..m -> S] : m \in 0..n }

Diagnoses == {"MI", "NORM", "XX"}

Sexes == {None, Some("Male")}

Questions == {None, Some("what should I eat")}

\* _retrieve_context calls: every store with the default patient (wide),
\* every patient with the stores of at most one chunk
RetrieveCalls(wide) ==
    IF wide
    THEN { [diagnosis |-> d, age |-> None, sex |-> None, k |-> k, question |-> q,
            store |-> s, mode |-> m] :
              d \in Diagnoses, k \in {1, 2}, q \in Questions,
              s \in SeqsUpTo(Chunks, MaxStoreDocs), m \in { "ok", "where_unsupported", "filter_unsupported", "filtered_down",
                      "scored_down", "plain_down", "all_down" } }
    ELSE { [diagnosis |-> d, age |-> a, sex |-> x, k |-> 1, question |-> q,
            store |-> s, mode |-> m] :
              d \in Diagnoses, a \in {None, Some(0), Some(25), Some(40), Some(60)},
              x \in Sexes, q \in Questions \cup {Some("")},
              s \in SeqsUpTo(Chunks, 1), m \in {"ok", "all_down"} }

\* generate_explanation calls with the generation model answering reply
ExplainCalls(reply) ==
    { [diagnosis |-> d, age |-> a, sex |-> x, k |-> k, store |-> s, mode |-> m,
       reply |-> reply] :
         d \in Diagnoses, a \in {None, Some(25)}, x \in Sexes, k \in {1, 2},
         s \in SeqsUpTo({ c \in Chunks : c.id \in {"a", "c"} }, MaxExplainDocs),
         m \in {"ok", "scored_down", "all_down"} }

NoReply == [kind |-> "none", text |-> <<>>]

NoDict == [explanation |-> <<>>]

-----------------------------------------------------------------------------
(* Explainer calls *)

RagInit ==
    /\ rOp = "none"
    /\ rDiagnosis = ""
    /\ rAge = None
    /\ rSex = None
    /\ rK = 0
    /\ rQuestion = None
    /\ rStore = <<>>
    /\ rStoreMode = "ok"
    /\ rLlm = NoReply
    /\ rSearches = <<>>
    /\ rContext = <<>>
    /\ rResult = NoDict
    /\ rRaised = FALSE

\* explainer._retrieve_context(diagnosis, age, sex, k, user_question)
RetrieveContext ==
    /\ rOp = "none"
    /\ \E wide \in BOOLEAN : \E c \in RetrieveCalls(wide) :
          \E r \in {retrieve_context(c.diagnosis, c.age, c.sex, c.k, c.question, c.store, c.mode)} :
              /\ rOp' = "_retrieve_context"
              /\ rDiagnosis' = c.diagnosis
              /\ rAge' = c.age
              /\ rSex' = c.sex
              /\ rK' = c.k
              /\ rQuestion' = c.question
              /\ rStore' = c.store
              /\ rStoreMode' = c.mode
              /\ rLlm' = NoReply
              /\ rSearches' = r.calls
              /\ rContext' = r.context
              /\ rResult' = NoDict
              /\ rRaised' = r.raised
              /\ UNCHANGED <<gvars, cvars, svars, pvars, mvars>>

\* explainer.generate_explanation(diagnosis, age, sex, k_retrieval)
GenerateExplanation ==
    /\ rOp = "none"
    /\ \E reply \in LlmReplies : \E c \in ExplainCalls(reply) :
          \E r \in {generate_explanation(c.diagnosis, c.age, c.sex, c.k, c.store, c.mode, c.reply)} :
              /\ rOp' = "generate_explanation"
              /\ rDiagnosis' = c.diagnosis
              /\ rAge' = c.age
              /\ rSex' = c.sex
              /\ rK' = c.k
              /\ rQuestion' = None
              /\ rStore' = c.store
              /\ rStoreMode' = c.mode
              /\ rLlm' = c.reply
              /\ rSearches' = r.ctx.calls
              /\ rContext' = r.ctx.context
              /\ rResult' = r.result
              /\ rRaised' = r.raised
              /\ UNCHANGED <<gvars, cvars, svars, pvars, mvars>>

-----------------------------------------------------------------------------
(* Chat endpoint: src/src/api/routers/chat.py, chat_with_rag *)

\* k of the retrieval of a chat request
ChatK == 5

\* a context shorter than this is rejected
MinContextChars == 50

\* a reply shorter than this is rejected
MinResponseChars == 10

\* the echo of the prompt's last line that the clean-up removes
RESPONSE_ECHO == "Your response:"

\* prompt[:50] and prompt[50:100]: the prompt starts with fixed text
PROMPT_HEAD == "You are a helpful medical assistant explaining ECG"

PROMPT_HEAD_REST == " results to a patient.\n\nPatient Information:\n- Dia"

\* an answer of the generation model
ANSWER == "Rest, eat well and see your cardiologist."

\* the reply for an empty list of candidates
NO_RESPONSE == "No response generated"

\* the fixed parts of fallback_response, around the diagnosis and before the
\* error message
FALLBACK_INTRO == "I understand you're asking about "

FALLBACK_BODY ==
    ".\n\nWhile I'm having trouble accessing detailed medical information right now, I can tell you that:\n- It's important to follow up with your cardiologist for personalized advice\n- Make sure to attend all scheduled follow-up appointments\n- Keep track of any symptoms you experience\n\nFor specific questions about your condition, please consult with your healthcare provider who can give you personalized guidance based on your complete medical history.\n\nError details: "

\* number of characters of the lexemes of replies
ChatCharsOf ==
    [l \in {ANSWER, RESPONSE_ECHO, PROMPT_HEAD, PROMPT_HEAD_REST, NO_RESPONSE,
            "ok", "repr("} |->
        CASE l = ANSWER -> 41
          [] l = RESPONSE_ECHO -> 14
          [] l = NO_RESPONSE -> 21
          [] l = "ok" -> 2
          [] l = "repr(" -> 10
          [] OTHER -> 50]

RECURSIVE TextChars(_)
TextChars(s) ==
    IF s = <<>> THEN 0
    ELSE (IF Head(s) \in DOMAIN ChatCharsOf THEN ChatCharsOf[Head(s)] ELSE LexChars(Head(s)))
            + TextChars(Tail(s))

\* len(context.strip()): "[Source: <source_file>]\n<page_content>" for each
\* document, joined by "\n\n---\n\n"; source file names have 21 characters
RECURSIVE ContextChars(_)
ContextChars(docs) ==
    IF docs = <<>> THEN 0
    ELSE 32 + Head(docs).chars
            + (IF Len(docs) > 1 THEN 7 ELSE 0) + ContextChars(Tail(docs))

\* lines 110-166: the text extracted from the reply of explainer.llm.invoke;
\* outcome "error" when invoke raises
ChatExtract(reply) ==
    IF reply.kind = "raises" THEN [outcome |-> "error", text |-> <<>>]
    ELSE IF llm_task = "conversational"
    THEN CASE reply.kind = "content" -> [outcome |-> "text", text |-> reply.text]
           [] reply.kind \in {"content_none", "content_blocks"} ->
                 [outcome |-> "unstrippable", text |-> <<>>]
           [] reply.kind \in {"generated_text", "candidates"} ->
                 [outcome |-> "text", text |-> reply.text]
           [] reply.kind = "empty_list" -> [outcome |-> "text", text |-> <<"[]">>]
           [] OTHER -> [outcome |-> "text", text |-> ReprOf(reply)]
    ELSE CASE reply.kind \in {"str", "candidates", "generated_text", "content"} ->
                 [outcome |-> "text", text |-> reply.text]
           [] reply.kind = "empty_list" -> [outcome |-> "text", text |-> <<NO_RESPONSE>>]
           [] reply.kind \in {"content_none", "content_blocks"} ->
                 [outcome |-> "unstrippable", text |-> <<>>]
           [] OTHER -> [outcome |-> "text", text |-> ReprOf(reply)]

\* the clean-up without the test of line 170: every reply is accepted
ChatCleanUp_NoMinLength(text) ==
    LET stripped == Strip(text)
    IN  [outcome |-> "text",
         text |-> IF stripped # <<>> /\ Head(stripped) = RESPONSE_ECHO
                  THEN Strip(StrReplace(stripped, <<RESPONSE_ECHO>>, <<>>))
                  ELSE stripped]

\* lines 168-178: strip, reject short replies, remove prompt artifacts;
\* outcome "error" marks the ValueError of line 171
ChatCleanUp(text) ==
    LET stripped == Strip(text)
        unechoed == IF stripped # <<>> /\ Head(stripped) = RESPONSE_ECHO
                    THEN Strip(StrReplace(stripped, <<RESPONSE_ECHO>>, <<>>))
                    ELSE stripped
    IN  IF stripped = <<>> \/ TextChars(stripped) < MinResponseChars
        THEN [outcome |-> "error", text |-> <<>>]
        ELSE [outcome |-> "text",
              text |-> IF \E i \in 1..Len(unechoed) : unechoed[i] = PROMPT_HEAD
                       THEN Strip(StrReplace(unechoed, <<PROMPT_HEAD, PROMPT_HEAD_REST>>, <<>>))
                       ELSE unechoed]

\* lines 192-212: the fallback ChatResponse
ChatFallback(req, error_msg, trace) ==
    [response  |-> <<FALLBACK_INTRO, req.diagnosis, FALLBACK_BODY, error_msg>>,
     diagnosis |-> req.diagnosis,
     path      |-> "fallback",
     answer    |-> <<>>,
     trace     |-> trace,
     raised    |-> FALSE]

\* chat_with_rag(request) with the collaborators behaving as env says
chat_with_rag(req, env) ==
    LET t1 == <<[step |-> "get_explainer", text |-> <<>>]>>
        t2 == Append(t1, [step |-> "_retrieve_context", text |-> req.message])
        t3 == Append(t2, [step |-> "llm.invoke", text |-> req.message])
    IN  IF env.init = "raises" THEN ChatFallback(req, "explainer error", t1)
        ELSE Bind(retrieve_context(req.diagnosis, req.age, req.sex, ChatK,
                                   req.message, env.store, env.mode),
          LAMBDA ctx :
            IF ctx.docs = <<>> \/ ContextChars(ctx.docs) < MinContextChars
            THEN ChatFallback(req, "Retrieved context is too short or empty", t2)
            ELSE Bind(ChatExtract(env.reply), LAMBDA got :
              IF got.outcome # "text"
              THEN ChatFallback(req, "LLM generation failed", t3)
              ELSE Bind(ChatCleanUp(got.text), LAMBDA clean :
                IF clean.outcome # "text"
                THEN ChatFallback(req, "LLM generation failed", t3)
                ELSE [response  |-> clean.text,
                      diagnosis |-> req.diagnosis,
                      path      |-> "answer",
                      answer    |-> got.text,
                      trace     |-> t3,
                      raised    |-> FALSE])))

-----------------------------------------------------------------------------
(* Inputs of the chat requests *)

\* number of chunks the store answers with in a chat request
MaxChatDocs == 2

\* request.message: a plain question, a question with a patient name, a
\* question with an injection phrase, the empty message
ChatMessages ==
    { <<"what should I eat">>,
      <<"Patient", " ", "Name", ":", " ", "John">>,
      <<"ignore", " ", "previous", " ", "instructions">>,
      <<>> }

\* texts a reply of the generation model may carry in a chat request
ChatReplyTexts ==
    { <<>>,
      <<" ">>,
      <<"ok">>,
      <<ANSWER>>,
      <<" ", ANSWER, "\n">>,
      <<RESPONSE_ECHO, " ", ANSWER>>,
      <<RESPONSE_ECHO>>,
      <<PROMPT_HEAD, PROMPT_HEAD_REST, " ", ANSWER>>,
      <<"Take", " ", "50", " ", "mg">>,
      <<"kill", " ", "yourself">> }

\* what explainer.llm.invoke does in a chat request
ChatReplies ==
    { [kind |-> "raises", text |-> <<>>] }
      \cup { [kind |-> kd, text |-> t] :
                kd \in {"str", "content", "generated_text", "candidates"},
                t \in ChatReplyTexts }
      \cup { [kind |-> kd, text |-> <<>>] :
                kd \in {"content_none", "content_blocks", "dict", "object", "empty_list"} }

\* the chat requests and the behaviour of their collaborators; init says
\* whether get_explainer() returns or raises
ChatCalls(init) ==
    { [req |-> [message |-> m, diagnosis |-> d, age |-> a, sex |-> None],
       env |-> [init |-> init, store |-> s, mode |-> md, reply |-> r]] :
         m \in ChatMessages, d \in {"MI", "XX"}, a \in {None, Some(40)},
         s \in SeqsUpTo({ c \in Chunks : c.id \in {"a", "c", "d"} }, MaxChatDocs),
         md \in {"ok", "filtered_down", "all_down"}, r \in ChatReplies }

-----------------------------------------------------------------------------
(* Chat requests *)

ChatInit ==
    /\ cOp = "none"
    /\ cReq = [message |-> <<>>, diagnosis |-> "", age |-> None, sex |-> None]
    /\ cEnv = [init |-> "ok", store |-> <<>>, mode |-> "ok", reply |-> NoReply]
    /\ cTrace = <<>>
    /\ cResponse = [response |-> <<>>, diagnosis |-> ""]
    /\ cPath = "none"
    /\ cAnswer = <<>>
    /\ cRaised = FALSE

\* POST /chat
ChatWithRag ==
    /\ cOp = "none"
    /\ \E init \in {"ok", "raises"} : \E c \in ChatCalls(init) :
          \E r \in {chat_with_rag(c.req, c.env)} :
              /\ cOp' = "chat_with_rag"
              /\ cReq' = c.req
              /\ cEnv' = c.env
              /\ cTrace' = r.trace
              /\ cResponse' = [response |-> r.response, diagnosis |-> r.diagnosis]
              /\ cPath' = r.path
              /\ cAnswer' = r.answer
              /\ cRaised' = r.raised
              /\ UNCHANGED <<gvars, rvars, svars, pvars, mvars>>

-----------------------------------------------------------------------------
(* The explainer singleton: src/src/rag_engine.py, get_explainer, called by
   the request handlers chat_with_rag and predict_ecg on worker threads *)

\* number of worker threads that serve requests at the same time
NumThreads == 2

\* number of get_explainer calls the worker threads make in all
MaxGetCalls == 3

\* a constructor that masks configuration errors
ECGExplainerInit_Masked(config) == ""

\* ECGExplainer.__init__ under a deployment: the exception it raises, ""
\* when it returns
ECGExplainerInit(config) ==
    CASE config = "no_db"      -> "FileNotFoundError"
      [] config = "load_error" -> "Exception"
      [] config = "no_token"   -> "ValueError"
      [] OTHER                 -> ""

SingletonInit ==
    /\ sConfig = "ok"
    /\ sExplainer = None
    /\ sCreated = 0
    /\ sPc = [t \in 1..NumThreads |-> "idle"]
    /\ sLocal = [t \in 1..NumThreads |-> None]
    /\ sGot = [t \in 1..NumThreads |-> <<>>]
    /\ sCalls = 0

\* a handler running on thread t calls get_explainer()
GetExplainerCall(t) ==
    /\ sPc[t] = "idle"
    /\ sCalls < MaxGetCalls
    /\ sCalls' = sCalls + 1
    /\ sPc' = [sPc EXCEPT ![t] = "check"]
    /\ UNCHANGED <<sExplainer, sCreated, sLocal, sGot, sConfig>>
    /\ UNCHANGED <<gvars, rvars, cvars, pvars, mvars>>

\* line 584: if _explainer is None
GetExplainerCheck(t) ==
    /\ sPc[t] = "check"
    /\ sPc' = [sPc EXCEPT ![t] = IF sExplainer = None THEN "construct" ELSE "return"]
    /\ UNCHANGED <<sExplainer, sCreated, sLocal, sGot, sCalls, sConfig>>
    /\ UNCHANGED <<gvars, rvars, cvars, pvars, mvars>>

\* line 585, right-hand side: ECGExplainer() returns a new instance or raises;
\* the exception leaves get_explainer and the global is not assigned
GetExplainerConstruct(t) ==
    /\ sPc[t] = "construct"
    /\ \E error \in {ECGExplainerInit(sConfig)} :
          IF error = ""
          THEN /\ sCreated' = sCreated + 1
               /\ sLocal' = [sLocal EXCEPT ![t] = Some(sCreated + 1)]
               /\ sPc' = [sPc EXCEPT ![t] = "assign"]
               /\ UNCHANGED sGot
          ELSE /\ sGot' = [sGot EXCEPT ![t] = Append(@, [instance |-> None, error |-> error])]
               /\ sPc' = [sPc EXCEPT ![t] = "idle"]
               /\ UNCHANGED <<sCreated, sLocal>>
    /\ UNCHANGED <<sExplainer, sCalls, sConfig>>
    /\ UNCHANGED <<gvars, rvars, cvars, pvars, mvars>>

\* line 585, assignment: the global takes the instance this thread constructed
GetExplainerAssign(t) ==
    /\ sPc[t] = "assign"
    /\ sExplainer' = sLocal[t]
    /\ sLocal' = [sLocal EXCEPT ![t] = None]
    /\ sPc' = [sPc EXCEPT ![t] = "return"]
    /\ UNCHANGED <<sCreated, sGot, sCalls, sConfig>>
    /\ UNCHANGED <<gvars, rvars, cvars, pvars, mvars>>

\* line 586: return _explainer, the global as it is now
GetExplainerReturn(t) ==
    /\ sPc[t] = "return"
    /\ sGot' = [sGot EXCEPT ![t] = Append(@, [instance |-> sExplainer, error |-> ""])]
    /\ sPc' = [sPc EXCEPT ![t] = "idle"]
    /\ UNCHANGED <<sExplainer, sCreated, sLocal, sCalls, sConfig>>
    /\ UNCHANGED <<gvars, rvars, cvars, pvars, mvars>>

\* the deployment changes between requests: the vector database is ingested
\* or removed, the token is set or unset in the .env file that
\* get_huggingface_token reloads
Redeploy ==
    /\ \E config \in {"ok", "no_db", "no_token", "load_error"} :
          /\ config # sConfig
          /\ sConfig' = config
    /\ UNCHANGED <<sExplainer, sCreated, sPc, sLocal, sGot, sCalls>>
    /\ UNCHANGED <<gvars, rvars, cvars, pvars, mvars>>

-----------------------------------------------------------------------------
(* Prediction endpoint: src/src/api/routers/predict.py, predict_ecg, and
   src/src/monitoring/prometheus_metrics.py, record_prediction *)

\* record_prediction(**kwargs) on the counters, with a Prometheus client that
\* works ("ok") or raises in the first or in the second inc(); raised is TRUE
\* when the call itself raises TypeError because the arguments do not fit the
\* signature
record_prediction(kwargs, counters, client) ==
    IF ~(DOMAIN kwargs \subseteq {"predicted_class", "confidence", "model_latency",
                                  "rag_latency", "status"})
          \/ ~({"predicted_class", "confidence", "model_latency"} \subseteq DOMAIN kwargs)
    THEN [raised |-> TRUE, counters |-> counters]
    ELSE LET status == IF "status" \in DOMAIN kwargs THEN kwargs.status ELSE "success"
             first  == IF client = "requests_inc_raises" THEN counters
                       ELSE [counters EXCEPT !.requests_total[status] = @ + 1]
         IN  [raised |-> FALSE,
              counters |->
                 IF client # "ok" THEN first
                 ELSE [first EXCEPT !.class_distribution[kwargs.predicted_class] = @ + 1]]

\* a RAG step whose failures leave the inner try
RagStep_Propagates(explainer, predicted_class, age, sex) ==
    IF explainer.kind # "ok"
    THEN [raised |-> TRUE, explanation_data |-> [explanation |-> <<>>]]
    ELSE [raised |-> FALSE,
          explanation_data |->
             generate_explanation(predicted_class, age, sex, 3,
                                  explainer.store, explainer.mode, explainer.reply).result]

\* lines 100-118: get_explainer and generate_explanation inside try/except
RagStep(explainer, predicted_class, age, sex) ==
    [raised |-> FALSE,
     explanation_data |->
        IF explainer.kind # "ok"
        THEN [explanation |->
                 <<"Your ECG shows ", predicted_class,
                   ". Please consult with a cardiologist for detailed interpretation and personalized treatment recommendations.">>,
              fallback |-> TRUE]
        ELSE generate_explanation(predicted_class, age, sex, 3,
                                  explainer.store, explainer.mode, explainer.reply).result]

\* an HTTP error response
HttpError(status_code) ==
    [status |-> status_code, prediction |-> "", confidence |-> 0,
     probabilities |-> <<>>, explanation |-> <<>>]

\* predict_ecg(input_data) with the collaborators behaving as env says; the
\* drift check (lines 139-163) sets the drift gauge when none of its calls
\* raises
predict_ecg(input, env, counters) ==
    IF input.shape # "ok" THEN [response |-> HttpError(400), counters |-> counters]
    ELSE IF env.model.kind = "raises" THEN [response |-> HttpError(500), counters |-> counters]
    ELSE Bind(RagStep(env.explainer, env.model.predicted_class, input.age, input.sex),
      LAMBDA rag :
        IF rag.raised THEN [response |-> HttpError(500), counters |-> counters]
        ELSE Bind(record_prediction(
                    [predicted_class |-> env.model.predicted_class,
                     confidence |-> env.model.confidence,
                     model_latency |-> 1, rag_latency |-> 1,
                     status |-> "success", total_latency |-> 2],
                    counters, env.metrics),
          LAMBDA recorded :
            [response |->
                [status |-> 200,
                 prediction |-> env.model.predicted_class,
                 confidence |-> env.model.confidence,
                 probabilities |-> env.model.probabilities,
                 explanation |-> rag.explanation_data.explanation],
             counters |->
                [recorded.counters EXCEPT
                    !.data_drift_score = IF env.drift = "ok" THEN Some(0) ELSE @]]))

-----------------------------------------------------------------------------
(* Inputs of the prediction requests *)

\* the prediction requests and the behaviour of their collaborators:
\* predict_ecg_signal returns a prediction (confidence and probabilities in
\* percent) or raises; get_explainer or generate_explanation raise, or the
\* explainer works on a store and a generation model
PredictCalls ==
    { [input |-> [shape |-> sh, age |-> a, sex |-> None],
       env |-> [model |-> m, explainer |-> e, metrics |-> mt, drift |-> dr]] :
         sh \in {"ok", "not_2d", "not_12_channels"}, a \in {None, Some(25)},
         m \in { [kind |-> "ok", predicted_class |-> "NORM", confidence |-> 95,
                  probabilities |-> [NORM |-> 95, MI |-> 5], class_index |-> 0],
                 [kind |-> "ok", predicted_class |-> "MI", confidence |-> 60,
                  probabilities |-> [NORM |-> 40, MI |-> 60], class_index |-> 1],
                 [kind |-> "raises", predicted_class |-> "", confidence |-> 0,
                  probabilities |-> [NORM |-> 0, MI |-> 0], class_index |-> 0] },
         e \in { [kind |-> kd, store |-> <<>>, mode |-> "ok", reply |-> NoReply] :
                    kd \in {"get_explainer_raises", "generate_explanation_raises"} }
                 \cup { [kind |-> "ok", store |-> <<>>, mode |-> md, reply |-> r] :
                           md \in {"ok", "all_down"},
                           r \in { [kind |-> "str", text |-> <<"reply">>],
                                   [kind |-> "raises", text |-> <<>>],
                                   [kind |-> "content_blocks", text |-> <<>>] } },
         mt \in {"ok", "requests_inc_raises", "class_inc_raises"},
         dr \in {"ok", "get_drift_monitor_raises", "check_drift_raises",
                 "set_data_drift_score_raises"} }

-----------------------------------------------------------------------------
(* Prediction requests *)

PredictInit ==
    /\ pOp = "none"
    /\ pInput = [shape |-> "ok", age |-> None, sex |-> None]
    /\ pEnv = [model |-> "none", explainer |-> "none", metrics |-> "ok", drift |-> "ok"]
    /\ pResponse = HttpError(0)
    /\ pCounters = [requests_total |-> [s \in {"success", "error"} |-> 0],
                    class_distribution |-> [c \in {"NORM", "MI"} |-> 0],
                    data_drift_score |-> None]

\* POST /predict
PredictEcg ==
    /\ pOp = "none"
    /\ \E c \in PredictCalls :
          \E r \in {predict_ecg(c.input, c.env, pCounters)} :
              /\ pOp' = "predict_ecg"
              /\ pInput' = c.input
              /\ pEnv' = c.env
              /\ pResponse' = r.response
              /\ pCounters' = r.counters
              /\ UNCHANGED <<gvars, rvars, cvars, svars, mvars>>

-----------------------------------------------------------------------------
(* The model cache: src/src/utils/model_loader.py, get_model and
   load_model_from_registry, called at startup and by predict_ecg_signal on
   the worker threads *)

\* number of predict_ecg_signal calls the worker threads make in all
MaxModelCalls == 3

ModelInit ==
    /\ mModel = None
    /\ mClassNames = None
    /\ mLoads = 0
    /\ mStarted = FALSE
    /\ mPc = [t \in 1..NumThreads |-> "idle"]
    /\ mLocal = [t \in 1..NumThreads |->
                    [after |-> FALSE, loads |-> 0, model |-> None, class_names |-> None]]
    /\ mGot = [t \in 1..NumThreads |-> <<>>]
    /\ mCalls = 0

\* main.py, lines 145-161: the startup handler calls
\* get_model(raise_on_error=False) before any request is served; the cache is
\* filled when the registry gives a model and stays empty when it does not
Startup ==
    /\ ~mStarted
    /\ mStarted' = TRUE
    /\ \E loaded \in BOOLEAN :
          IF loaded
          THEN /\ mModel' = Some(mLoads + 1)
               /\ mClassNames' = Some(<<"NORM", "MI", "STTC", "CD", "HYP">>)
               /\ mLoads' = mLoads + 1
          ELSE UNCHANGED <<mModel, mClassNames, mLoads>>
    /\ UNCHANGED <<mPc, mLocal, mGot, mCalls>>
    /\ UNCHANGED <<gvars, rvars, cvars, svars, pvars>>

\* line 285: predict_ecg_signal running on thread t calls get_model()
GetModelCall(t) ==
    /\ mStarted
    /\ mPc[t] = "idle"
    /\ mCalls < MaxModelCalls
    /\ mCalls' = mCalls + 1
    /\ mPc' = [mPc EXCEPT ![t] = "check"]
    /\ mLocal' = [mLocal EXCEPT ![t] =
                     [after |-> (mModel # None /\ mClassNames # None), loads |-> 0,
                      model |-> None, class_names |-> None]]
    /\ UNCHANGED <<mModel, mClassNames, mLoads, mStarted, mGot>>
    /\ UNCHANGED <<gvars, rvars, cvars, svars, pvars>>

\* line 245: if _model is None
GetModelCheck(t) ==
    /\ mPc[t] = "check"
    /\ mPc' = [mPc EXCEPT ![t] = IF mModel = None THEN "load_latest" ELSE "return"]
    /\ UNCHANGED <<mModel, mClassNames, mLoads, mStarted, mLocal, mGot, mCalls>>
    /\ UNCHANGED <<gvars, rvars, cvars, svars, pvars>>

\* load_model_from_registry, lines 98, 117, 146: the global _model takes the
\* model the registry gives, or the function raises RuntimeError (lines 154,
\* 201); get_model calls it with stage None (line 252), on failure once more
\* with stage "Production" (line 258), and raises RuntimeError when both
\* calls failed (line 263)
LoadModelAssign(t) ==
    /\ mPc[t] \in {"load_latest", "load_production"}
    /\ \E found \in BOOLEAN :
          IF found
          THEN /\ mModel' = Some(mLoads + 1)
               /\ mLoads' = mLoads + 1
               /\ mLocal' = [mLocal EXCEPT ![t].loads = @ + 1]
               /\ mPc' = [mPc EXCEPT ![t] = "class_names"]
               /\ UNCHANGED mGot
          ELSE IF mPc[t] = "load_latest"
          THEN /\ mPc' = [mPc EXCEPT ![t] = "load_production"]
               /\ UNCHANGED <<mModel, mLoads, mLocal, mGot>>
          ELSE /\ mGot' = [mGot EXCEPT ![t] = Append(@,
                              [model |-> None, class_names |-> None,
                               error |-> "RuntimeError", after |-> mLocal[t].after,
                               loads |-> mLocal[t].loads])]
               /\ mPc' = [mPc EXCEPT ![t] = "idle"]
               /\ UNCHANGED <<mModel, mLoads, mLocal>>
    /\ UNCHANGED <<mClassNames, mStarted, mCalls>>
    /\ UNCHANGED <<gvars, rvars, cvars, svars, pvars>>

\* load_model_from_registry, lines 186 and 190: the global _class_names takes
\* the names of the artifact or the default names
LoadClassNames(t) ==
    /\ mPc[t] = "class_names"
    /\ mClassNames' = Some(<<"NORM", "MI", "STTC", "CD", "HYP">>)
    /\ mPc' = [mPc EXCEPT ![t] = "load_return"]
    /\ UNCHANGED <<mModel, mLoads, mStarted, mLocal, mGot, mCalls>>
    /\ UNCHANGED <<gvars, rvars, cvars, svars, pvars>>

\* load_model_from_registry, line 192: return _model, _class_names, the
\* globals as they are now
LoadReturn(t) ==
    /\ mPc[t] = "load_return"
    /\ mLocal' = [mLocal EXCEPT ![t].model = mModel, ![t].class_names = mClassNames]
    /\ mPc' = [mPc EXCEPT ![t] = "assign"]
    /\ UNCHANGED <<mModel, mClassNames, mLoads, mStarted, mGot, mCalls>>
    /\ UNCHANGED <<gvars, rvars, cvars, svars, pvars>>

\* get_model, lines 252 and 258: the globals take the pair that
\* load_model_from_registry returned
GetModelAssign(t) ==
    /\ mPc[t] = "assign"
    /\ mModel' = mLocal[t].model
    /\ mClassNames' = mLocal[t].class_names
    /\ mPc' = [mPc EXCEPT ![t] = "return"]
    /\ UNCHANGED <<mLoads, mStarted, mLocal, mGot, mCalls>>
    /\ UNCHANGED <<gvars, rvars, cvars, svars, pvars>>

\* get_model, line 272: return _model, _class_names, the globals as they are
\* now; predict_ecg_signal, line 302, indexes the class names, which raises
\* TypeError when they are None
GetModelReturn(t) ==
    /\ mPc[t] = "return"
    /\ mGot' = [mGot EXCEPT ![t] = Append(@,
                   [model |-> mModel, class_names |-> mClassNames,
                    error |-> IF mClassNames = None THEN "TypeError" ELSE "",
                    after |-> mLocal[t].after, loads |-> mLocal[t].loads])]
    /\ mPc' = [mPc EXCEPT ![t] = "idle"]
    /\ UNCHANGED <<mModel, mClassNames, mLoads, mStarted, mLocal, mCalls>>
    /\ UNCHANGED <<gvars, rvars, cvars, svars, pvars>>

-----------------------------------------------------------------------------
(* Specifications *)

vars == <<gvars, rvars, cvars, svars, pvars, mvars>>

Init == GuardInit /\ RagInit /\ ChatInit /\ SingletonInit /\ PredictInit /\ ModelInit

SpecGuardIn == Init /\ [][ValidateInput \/ RevalidateInput]_vars

SpecGuardOut == Init /\ [][ModerateOutput]_vars

SpecGuard == Init /\ [][ValidateInput \/ RevalidateInput \/ ModerateOutput]_vars

SpecRetrieve == Init /\ [][RetrieveContext]_vars

SpecExplain == Init /\ [][GenerateExplanation]_vars

SpecChat == Init /\ [][ChatWithRag]_vars

NextSingleton ==
    \/ \E t \in 1..NumThreads :
          \/ GetExplainerCall(t)
          \/ GetExplainerCheck(t)
          \/ GetExplainerConstruct(t)
          \/ GetExplainerAssign(t)
          \/ GetExplainerReturn(t)
    \/ Redeploy

SpecSingleton == Init /\ [][NextSingleton]_vars

SpecPredict == Init /\ [][PredictEcg]_vars

NextModelCache ==
    \/ Startup
    \/ \E t \in 1..NumThreads :
          \/ GetModelCall(t)
          \/ GetModelCheck(t)
          \/ LoadModelAssign(t)
          \/ LoadClassNames(t)
          \/ LoadReturn(t)
          \/ GetModelAssign(t)
          \/ GetModelReturn(t)

SpecModelCache == Init /\ [][NextModelCache]_vars

Next ==
    \/ ValidateInput \/ RevalidateInput \/ ModerateOutput
    \/ RetrieveContext \/ GenerateExplanation
    \/ ChatWithRag
    \/ NextSingleton
    \/ PredictEcg
    \/ NextModelCache

Spec == Init /\ [][Next]_vars

-----------------------------------------------------------------------------
(* Properties of the guardrails engine *)

CountRule(es, rule) == Cardinality({i \in 1..Len(es) : es[i].rule = rule})

PiiPresent(s) == \E n \in 1..Len(PII_PATTERNS) : PiiSearch(PII_PATTERNS[n], s)

\* the prompt-injection patterns that match s
InjectionPatternsIn(s) ==
    {n \in 1..Len(PROMPT_INJECTION_PATTERNS) :
        InjectionSearch(PROMPT_INJECTION_PATTERNS[n], s)}

\* position of the leftmost match of the patient-name pattern, 0 = none
PatientNameSearch(s) ==
    IF PiiSearch("patient_name", s)
    THEN CHOOSE i \in 1..Len(s) :
            /\ PatientNameAt(s, i).end > 0
            /\ \A j \in 1..(i - 1) : PatientNameAt(s, j).end = 0
    ELSE 0

\* the text as the dosage block leaves it
DosageSanitized(t) == DosageStep(NewResult(t), "unknown", "ok").text

\* the outcome of the toxicity block: refusal text and one blocking event
Refused ==
    /\ gText = <<REFUSAL>>
    /\ CountRule(gEvents, "toxicity_filter") = 1
    /\ \A i \in 1..Len(gEvents) :
          gEvents[i].rule = "toxicity_filter" => gEvents[i].severity = "blocking"

\* C3 as claimed: every output text that contains a toxicity keyword, with or
\* without a dosage instruction, comes back as the refusal message with exactly
\* one blocking toxicity_filter event.
C3_AnyKeywordRefused ==
    (gOp = "moderate_output" /\ AnyToxicKeyword(gInput)) => Refused

\* C3 amended: the refusal and its single blocking toxicity_filter event are
\* produced exactly when the text left by the dosage replacement still contains
\* a toxicity keyword, in particular for every text with a keyword and no dosage
\* instruction; a keyword on the line tail removed by the dosage replacement is
\* dropped with it, the text then carries the safe-referral sentence, one dosage
\* event and no toxicity event.  In every case the returned text is free of
\* toxicity keywords.
C3_KeywordAfterDosageRefused ==
    gOp = "moderate_output" =>
       /\ (AnyToxicKeyword(gInput) /\ DosageSearch(gInput) = 0) => Refused
       /\ AnyToxicKeyword(DosageSanitized(gInput)) <=> Refused
       /\ (AnyToxicKeyword(gInput) /\ ~Refused) =>
             /\ CountRule(gEvents, "block_medication_dosage") = 1
             /\ CountRule(gEvents, "toxicity_filter") = 0
             /\ \E i \in 1..Len(gText) : gText[i] = SAFE_ADVICE
       /\ \A i \in 1..Len(gText) : Fold(gText[i]) \notin {"idiot", "stupid", "useless", "kill"}

\* a text with a keyword and a dosage instruction before it is refused; one
\* whose keyword follows the instruction on its line is not
C3_Witness ==
    /\ gOp = "moderate_output"
    /\ AnyToxicKeyword(gInput)
    /\ DosageSearch(gInput) > 0
    /\ Refused
    /\ Len(gEvents) = 2

\* C4 as claimed: a dosage instruction in a text without toxicity keyword is
\* replaced by the safe-referral sentence, the text before the match is left
\* unchanged and exactly one blocking block_medication_dosage event is emitted.
C4_DosageReplacedPrefixKept ==
    (gOp = "moderate_output" /\ DosageSearch(gInput) > 0 /\ ~AnyToxicKeyword(gInput)) =>
       LET at == DosageSearch(gInput)
       IN  /\ Len(gText) >= at
           /\ SubSeq(gText, 1, at - 1) = SubSeq(gInput, 1, at - 1)
           /\ gText[at] = SAFE_ADVICE
           /\ Len(gEvents) = 1
           /\ gEvents[1].rule = "block_medication_dosage"
           /\ gEvents[1].severity = "blocking"

\* C5: a text in which no PII pattern and no prompt-injection pattern matches
\* is returned unchanged, with no event and no telemetry call.
C5_CleanInputUntouched ==
    (/\ gOp = "validate_input"
     /\ ~PiiPresent(gInput)
     /\ InjectionPatternsIn(gInput) = {}) =>
       /\ gEvents = <<>>
       /\ gText = gInput
       /\ gMetricCalls = <<>>
       /\ ~gRaised

C5_Witness ==
    /\ gOp = "validate_input"
    /\ gPass = 1
    /\ ~PiiPresent(gInput)
    /\ InjectionPatternsIn(gInput) = {}
    /\ Len(gInput) >= 6
    /\ \E i \in 1..Len(gInput) : Fold(gInput[i]) = "mr"
    /\ gText = gInput

\* C6: a text with a "Patient Name: <name>" segment, no honorific-style name and
\* no injection phrase comes back with the name span replaced by [REDACTED],
\* the "Patient Name:" prefix (and all text before it) kept, and exactly one
\* pii_redaction event.
C6_PatientNameRedacted ==
    (/\ gOp = "validate_input"
     /\ PiiSearch("patient_name", gInput)
     /\ ~PiiSearch("honorific", gInput)
     /\ InjectionPatternsIn(gInput) = {}) =>
       LET at == PatientNameSearch(gInput)
           m  == PatientNameAt(gInput, at)
       IN  /\ Len(gText) >= m.g1
           /\ SubSeq(gText, 1, m.g1 - 1) = SubSeq(gInput, 1, m.g1 - 1)
           /\ gText[m.g1] = REDACTED
           /\ (~PiiSearch("patient_name", SubSeq(gInput, m.end, Len(gInput))) =>
                 gText = SubSeq(gInput, 1, m.g1 - 1) \o <<REDACTED>>
                            \o SubSeq(gInput, m.end, Len(gInput)))
           /\ ~PiiSearch("patient_name", gText)
           /\ Len(gEvents) = 1
           /\ gEvents[1].rule = "pii_redaction"
           /\ gMetricCalls = <<[endpoint |-> EngineEndpoint(gEndpoint),
                                stage |-> "input", rule |-> "pii_redaction"]>>

C6_Witness ==
    /\ gOp = "validate_input"
    /\ gPass = 1
    /\ gInput = <<"Patient", " ", "Name", ":", " ", "John", " ", "John">>
    /\ gText = <<"Patient", " ", "Name", ":", " ", REDACTED>>
    /\ Len(gEvents) = 1

\* C7: prompt-injection detection never rewrites text: the returned text is the
\* text left by the PII redaction, and a text with one injection phrase and no
\* PII is returned unchanged with exactly one prompt_injection_heuristic event.
C7_InjectionLeavesText ==
    gOp = "validate_input" =>
       /\ gText = RedactPii(gInput, EngineEndpoint(gEndpoint), gTelemetry).text
       /\ (~PiiPresent(gInput) /\ Cardinality(InjectionPatternsIn(gInput)) = 1) =>
             /\ gText = gInput
             /\ Len(gEvents) = 1
             /\ gEvents[1].rule = "prompt_injection_heuristic"
             /\ gEvents[1].sanitized_text_sample = gEvents[1].original_text_sample

C7_Witness ==
    /\ gOp = "validate_input"
    /\ gPass = 1
    /\ ~PiiPresent(gInput)
    /\ InjectionPatternsIn(gInput) = {1}
    /\ gText = gInput
    /\ Len(gEvents) = 1
    /\ Len(gInput) > 7

\* C8 as claimed: the returned text equals the input text if and only if the
\* returned events list is empty, for validate_input and for moderate_output.
C8_TextSameIffNoEvents ==
    gOp # "none" => (gText = gInput <=> gEvents = <<>>)

\* C8 amended: an empty events list implies an unchanged text for both
\* operations; the converse holds for moderate_output, and for validate_input
\* with "no pii_redaction event" in place of "no event": prompt-injection
\* events are reported on a text that is returned as it was.
C8_TextSameIffNothingRewritten ==
    /\ gOp # "none" => (gEvents = <<>> => gText = gInput)
    /\ gOp = "moderate_output" => (gText = gInput <=> gEvents = <<>>)
    /\ gOp = "validate_input" =>
          (gText = gInput <=> CountRule(gEvents, "pii_redaction") = 0)

C8_Witness ==
    /\ gOp = "validate_input"
    /\ gText = gInput
    /\ gEvents # <<>>
    /\ CountRule(gEvents, "pii_redaction") = 0

\* C9 as claimed: no two events of one call carry the same rule identifier.
C9_RuleFiresOnce ==
    \A i, j \in 1..Len(gEvents) : i # j => gEvents[i].rule # gEvents[j].rule

\* C9 amended: each pattern fires at most once per call, however often it
\* occurs in the text: validate_input emits one prompt_injection_heuristic
\* event for every injection pattern (of four) that matches the redacted text
\* and at most one pii_redaction event for each of the two PII patterns, so
\* that two events of a call carry the same rule identifier exactly when two
\* patterns of that rule matched; in moderate_output no two events carry the
\* same rule identifier.
C9_PatternFiresOnce ==
    /\ gOp = "validate_input" =>
          /\ CountRule(gEvents, "prompt_injection_heuristic")
                = Cardinality(InjectionPatternsIn(gText))
          /\ CountRule(gEvents, "pii_redaction") <= Len(PII_PATTERNS)
          /\ CountRule(gEvents, "pii_redaction")
                + CountRule(gEvents, "prompt_injection_heuristic") = Len(gEvents)
          /\ Len(gMetricCalls) = Len(gEvents)
    /\ gOp = "moderate_output" => C9_RuleFiresOnce

\* one pattern occurring twice gives one event
C9_Witness ==
    /\ gOp = "validate_input"
    /\ gPass = 1
    /\ Cardinality({i \in 1..Len(gInput) : InjectionAt("ignore_previous", gInput, i)}) = 2
    /\ CountRule(gEvents, "prompt_injection_heuristic") = 1

\* C10 as claimed: validate_input applied to its own output returns an empty
\* events list and the same text.
C10_SecondPassSilent ==
    (gOp = "validate_input" /\ gPass = 2) => (gEvents = <<>> /\ gText = gInput)

InjectionEvents(es) == SelectSeq(es, LAMBDA e : e.rule = "prompt_injection_heuristic")

\* C10 amended: validate_input applied to its own output returns the same text
\* and redacts nothing (no pii_redaction event); its events are the
\* prompt_injection_heuristic events of the first pass, reported again because
\* the phrases are still in the text, so the second events list is empty
\* exactly when the first pass reported no injection.
C10_SecondPassRedactsNothing ==
    (gOp = "validate_input" /\ gPass = 2) =>
       /\ gText = gInput
       /\ gInput = gPrev.text
       /\ CountRule(gEvents, "pii_redaction") = 0
       /\ gEvents = InjectionEvents(gPrev.events)

C10_Witness ==
    /\ gOp = "validate_input"
    /\ gPass = 2
    /\ CountRule(gPrev.events, "pii_redaction") = 2
    /\ CountRule(gPrev.events, "prompt_injection_heuristic") = 1
    /\ Len(gEvents) = 1

-----------------------------------------------------------------------------
(* Properties of the RAG engine *)

\* the permitted-source list of a diagnosis, as a set
PermittedSources(diagnosis) == Range(DictGet(DIAGNOSIS_PDF_MAP, diagnosis, <<>>))

\* C1: for a diagnosis with a non-empty permitted-source list, whatever k,
\* user question, store content and store failures, every passage of the
\* context returned by _retrieve_context has a source_file of that list.
C1_ContextFromPermittedSources ==
    (rOp = "_retrieve_context" /\ PermittedSources(rDiagnosis) # {}) =>
        \A i \in 1..Len(rContext) :
            rContext[i].source \in PermittedSources(rDiagnosis)

\* C1 witness: a chat retrieval for MI whose source-filtered searches
\* raise, on a store that answers with a chunk of another guide first, still
\* returns a passage.
C1_Witness ==
    /\ rOp = "_retrieve_context"
    /\ rDiagnosis = "MI"
    /\ rQuestion # None
    /\ rStoreMode = "filtered_down"
    /\ rStore # <<>>
    /\ rStore[1].source_file \notin PermittedSources("MI")
    /\ rContext # <<>>

\* C2 as stated: generate_explanation never raises, and when the generation
\* model or the vector store throws on every call the result is marked
\* fallback = true with the error message, and its explanation is the
\* non-empty static fallback text of the diagnosis (with its personalised
\* clause when age or sex is given).
C2_FailureMarkedFallback ==
    (rOp = "generate_explanation"
        /\ (rLlm.kind = "raises" \/ rStoreMode = "all_down")) =>
        /\ ~rRaised
        /\ DictGet(rResult, "fallback", FALSE) = TRUE
        /\ "error" \in DOMAIN rResult
        /\ rResult.explanation # <<>>
        /\ Strip(rResult.explanation)
              = Strip(generate_fallback_explanation(rDiagnosis, rAge, rSex))

-----------------------------------------------------------------------------
(* Properties of the guardrails engine: rule order, totality, telemetry *)

\* the text validate_input holds after its PII loop
PiiRedacted(t) == RedactPii(t, "unknown", "ok").text

\* C11: validate_input applies PII first and injection second: in the returned
\* events every pii_redaction event precedes every prompt_injection_heuristic
\* event, and the injection events are those of the patterns that match the
\* PII-redacted text (one per pattern, in pattern order, each carrying the
\* redacted text as its sample), whatever the original text matched.
C11_PiiThenInjectionOnRedacted ==
    (gOp = "validate_input") =>
       LET redacted == PiiRedacted(gInput)
           hits     == InjectionPatternsIn(redacted)
           inj      == InjectionEvents(gEvents)
       IN  /\ \A i, j \in 1..Len(gEvents) :
                 (/\ gEvents[i].rule = "pii_redaction"
                  /\ gEvents[j].rule = "prompt_injection_heuristic") => i < j
           /\ \A i \in 1..Len(gEvents) :
                 gEvents[i].rule \in {"pii_redaction", "prompt_injection_heuristic"}
           /\ Len(inj) = Cardinality(hits)
           /\ \A i \in 1..Len(inj) :
                 /\ inj[i].original_text_sample = Sample(redacted, InputSampleLen)
                 /\ inj[i].sanitized_text_sample = Sample(redacted, InputSampleLen)
           /\ gText = redacted

\* a call where both rules fired and the redaction removed an injection phrase
\* that the original text contained
C11_Witness ==
    /\ gOp = "validate_input"
    /\ gPass = 1
    /\ CountRule(gEvents, "pii_redaction") > 0
    /\ CountRule(gEvents, "prompt_injection_heuristic") > 0
    /\ InjectionPatternsIn(gInput) # InjectionPatternsIn(PiiRedacted(gInput))
    /\ gEvents[1].rule = "pii_redaction"

\* C12: moderate_output runs the dosage check on the original text and the
\* toxicity check on the dosage-sanitized text: the dosage event fires exactly
\* when the original text has a dosage instruction and samples the original
\* text; when both rules fire the events are block_medication_dosage then
\* toxicity_filter, the toxicity event samples the dosage-sanitized text (its
\* first 200 characters) and the returned text is the refusal message alone,
\* with nothing of the dosage replacement in it.
C12_DosageThenToxicityOnSanitized ==
    (gOp = "moderate_output") =>
       LET dosed == DosageSanitized(gInput)
       IN  /\ (CountRule(gEvents, "block_medication_dosage") > 0)
                 <=> (DosageSearch(gInput) # 0)
           /\ (DosageSearch(gInput) # 0) =>
                 /\ gEvents[1].rule = "block_medication_dosage"
                 /\ gEvents[1].original_text_sample = Sample(gInput, OutputSampleLen)
                 /\ gEvents[1].sanitized_text_sample = Sample(dosed, OutputSampleLen)
           /\ (/\ CountRule(gEvents, "block_medication_dosage") > 0
               /\ CountRule(gEvents, "toxicity_filter") > 0) =>
                 /\ Len(gEvents) = 2
                 /\ gEvents[1].rule = "block_medication_dosage"
                 /\ gEvents[2].rule = "toxicity_filter"
                 /\ gEvents[2].original_text_sample = Sample(dosed, OutputSampleLen)
                 /\ gText = <<REFUSAL>>
                 /\ \A i \in 1..Len(gText) : gText[i] # SAFE_ADVICE

\* a call where both rules fired: a keyword outside the line of the dosage
\* instruction
C12_Witness ==
    /\ gOp = "moderate_output"
    /\ Len(gEvents) = 2
    /\ gEvents[1].rule = "block_medication_dosage"
    /\ gEvents[2].rule = "toxicity_filter"
    /\ DosageSanitized(gInput) # gInput
    /\ gText = <<REFUSAL>>

\* the events of a GuardrailResult: a list of GuardrailEvent records
IsEventList(events) ==
    /\ DOMAIN events = 1..Len(events)
    /\ \A i \in 1..Len(events) :
          /\ DOMAIN events[i] = {"stage", "rule", "severity", "original_text_sample",
                                 "sanitized_text_sample", "endpoint"}
          /\ events[i].stage \in {"input", "output"}
          /\ events[i].severity \in {"info", "warning", "blocking"}

\* C13: validate_input and moderate_output are total: every call, on the empty
\* string, on clean text and on text that violates every policy, with working
\* or failing telemetry, returns a GuardrailResult and does not raise; the
\* empty string comes back as the empty text with no events.
C13_GuardrailsTotal ==
    (gOp \in {"validate_input", "moderate_output"}) =>
       /\ ~gRaised
       /\ IsEventList(gEvents)
       /\ (gInput = <<>>) => (gText = <<>> /\ gEvents = <<>>)

\* a call on a text that violates every input policy (both PII patterns and an
\* injection pattern) and returned
C13_Witness ==
    /\ gOp = "validate_input"
    /\ gPass = 1
    /\ CountRule(gEvents, "pii_redaction") = 2
    /\ CountRule(gEvents, "prompt_injection_heuristic") > 0
    /\ ~gRaised

\* the result of the same call on an engine whose telemetry succeeds
WithWorkingTelemetry ==
    IF gOp = "validate_input"
    THEN validate_input(gInput, EngineEndpoint(gEndpoint), "ok")
    ELSE moderate_output(gInput, EngineEndpoint(gEndpoint), "ok")

\* C14: telemetry is best-effort: when record_guardrail_event raises on some
\* or on every invocation, validate_input and moderate_output return without
\* raising the text and the events they return when telemetry succeeds, and
\* for every fired event exactly one telemetry call is attempted, in event
\* order, with that event's endpoint, stage and rule.
C14_TelemetryBestEffort ==
    (gOp \in {"validate_input", "moderate_output"}) =>
       /\ ~gRaised
       /\ gText = WithWorkingTelemetry.text
       /\ gEvents = WithWorkingTelemetry.events
       /\ Len(gMetricCalls) = Len(gEvents)
       /\ \A i \in 1..Len(gEvents) :
             gMetricCalls[i] = [endpoint |-> gEvents[i].endpoint,
                                stage    |-> gEvents[i].stage,
                                rule     |-> gEvents[i].rule]
       /\ \A i \in 1..Len(gEvents) :
             gEvents[i].endpoint = EngineEndpoint(gEndpoint)

\* a call with several events whose telemetry raised on some invocations and
\* succeeded on others
C14_Witness ==
    /\ gOp \in {"validate_input", "moderate_output"}
    /\ gTelemetry = "flaky"
    /\ Len(gEvents) >= 2
    /\ Len(gMetricCalls) = Len(gEvents)
    /\ ~gRaised

-----------------------------------------------------------------------------
(* Properties of the RAG engine: size, order and degradation of retrieval *)

\* C15 as stated: for every diagnosis, mapped or not, every k >= 1 and every
\* behaviour of the vector store, a store answering with more results than
\* requested included, _retrieve_context puts at most k passages into the
\* context it returns.
C15_AtMostKPassages ==
    (rOp = "_retrieve_context") => Len(rContext) <= rK

\* the merged per-source candidates of the call the state records
MergedCandidates ==
    SearchPdfs([all |-> <<>>, calls |-> <<>>],
               DictGet(DIAGNOSIS_PDF_MAP, rDiagnosis, <<>>),
               SearchQuery(rDiagnosis, rAge, rSex, rQuestion),
               rK, rStore, rStoreMode).all

\* the merged candidates that come from a permitted source, have at least 50
\* characters of stripped content and carry no boilerplate marker
PassingCandidates ==
    SelectSeq(MergedCandidates,
              LAMBDA d : Verified(d, DictGet(DIAGNOSIS_PDF_MAP, rDiagnosis, <<>>)))

FilteredSearchRaises(mode) ==
    \/ StoreFault(mode, "where") = "Exception"
    \/ StoreFault(mode, "where") = "TypeError" /\ StoreFault(mode, "filter") # "none"

\* what the manual filter keeps of the store's unfiltered answer, source by source
RECURSIVE KeptBySource(_, _)
KeptBySource(store, pdfs) ==
    IF pdfs = <<>> THEN <<>>
    ELSE SelectSeq(store, LAMBDA d : d.source_file = Head(pdfs))
            \o KeptBySource(store, Tail(pdfs))

\* C17: retrieval degrades instead of failing: when the source-filtered search
\* of a permitted source raises, _retrieve_context issues one unfiltered search
\* of 5*k candidates for that source and goes on with the candidates of that
\* source only; when that search raises too the context is empty; when every
\* call of the vector store fails the context is empty for mapped and for
\* unmapped diagnoses; and _retrieve_context never raises.
C17_RetrievalDegrades ==
    (rOp = "_retrieve_context") =>
       LET pdfs == DictGet(DIAGNOSIS_PDF_MAP, rDiagnosis, <<>>)
           kept == KeptBySource(rStore, pdfs)
           unfiltered == SelectSeq(rSearches, LAMBDA c : c.api = "unfiltered")
       IN  /\ ~rRaised
           /\ (rStoreMode = "all_down") => (rContext = <<>>)
           /\ (pdfs # <<>> /\ FilteredSearchRaises(rStoreMode)) =>
                 /\ Len(unfiltered) = Len(pdfs)
                 /\ \A i \in 1..Len(unfiltered) :
                       unfiltered[i].k = 5 * rK /\ unfiltered[i].source_file = ""
                 /\ \A i \in 1..Len(rContext) :
                       rContext[i].source \in Range(pdfs)
                 /\ (StoreFault(rStoreMode, "unfiltered") # "none") => (rContext = <<>>)
                 /\ (StoreFault(rStoreMode, "unfiltered") = "none" /\ ~SortRaises(kept)) =>
                       LET expected == SelectVerified(kept, rK, pdfs)
                       IN  /\ Len(rContext) = Len(expected)
                           /\ \A i \in 1..Len(expected) :
                                 rContext[i].content = expected[i].id
           /\ (pdfs # <<>> /\ ~FilteredSearchRaises(rStoreMode)) => (unfiltered = <<>>)

\* a retrieval whose filtered search raised and whose unfiltered search
\* answered with a chunk of another guide and a chunk of the permitted one:
\* the context holds the permitted chunk only
C17_Witness ==
    /\ rOp = "_retrieve_context"
    /\ PermittedSources(rDiagnosis) # {}
    /\ FilteredSearchRaises(rStoreMode)
    /\ StoreFault(rStoreMode, "unfiltered") = "none"
    /\ \E i \in 1..Len(rStore) : rStore[i].source_file \notin PermittedSources(rDiagnosis)
    /\ Len(rContext) = 1
    /\ \E i \in 1..Len(rSearches) :
          rSearches[i].api = "unfiltered" /\ rSearches[i].k = 5 * rK

-----------------------------------------------------------------------------
(* Properties of the chat endpoint *)

\* the fallback message of chat_with_rag for a diagnosis, with any error text
IsChatFallback(response, diagnosis) ==
    /\ Len(response) = 4
    /\ response[1] = FALLBACK_INTRO
    /\ response[2] = diagnosis
    /\ response[3] = FALLBACK_BODY

\* the context the retrieval of the recorded request returns
ChatContextDocs ==
    retrieve_context(cReq.diagnosis, cReq.age, cReq.sex, ChatK, cReq.message,
                     cEnv.store, cEnv.mode).docs

\* a collaborator of the recorded request failed: get_explainer raised, the
\* context is empty or shorter than 50 characters, the generation model
\* raised, or its reply is empty or shorter than 10 characters
CollaboratorFailed ==
    \/ cEnv.init = "raises"
    \/ ChatContextDocs = <<>>
    \/ ContextChars(ChatContextDocs) < MinContextChars
    \/ cEnv.reply.kind = "raises"
    \/ /\ cEnv.reply.kind \in {"str", "content", "generated_text", "candidates"}
       /\ TextChars(Strip(cEnv.reply.text)) < MinResponseChars

\* C18: chat_with_rag always returns a ChatResponse and never raises; its
\* diagnosis is the request's diagnosis; and when a collaborator fails
\* (explainer initialisation raises, the context is empty or too short, the
\* generation model raises or replies with less than 10 characters) the
\* response text is the non-empty fallback message of that diagnosis.
C18_ChatAlwaysAnswers ==
    (cOp = "chat_with_rag") =>
       /\ ~cRaised
       /\ DOMAIN cResponse = {"response", "diagnosis"}
       /\ cResponse.diagnosis = cReq.diagnosis
       /\ CollaboratorFailed =>
             /\ cPath = "fallback"
             /\ cResponse.response # <<>>
             /\ IsChatFallback(cResponse.response, cReq.diagnosis)

\* a request whose explainer and retrieval worked and whose generation model
\* replied "ok": the handler called the model and answered with the fallback
C18_Witness ==
    /\ cOp = "chat_with_rag"
    /\ cEnv.init = "ok"
    /\ cEnv.reply = [kind |-> "str", text |-> <<"ok">>]
    /\ Len(cTrace) = 3
    /\ cPath = "fallback"
    /\ IsChatFallback(cResponse.response, cReq.diagnosis)

\* C19: in every chat request the retrieval and the generation model see the
\* question as validate_input returns it, and an answer that is returned is
\* the text moderate_output makes of the cleaned reply, so that no unmoderated
\* text of the generation model reaches the response.
C19_GuardedChain ==
    (cOp = "chat_with_rag") =>
       /\ \A i \in 1..Len(cTrace) :
             cTrace[i].step \in {"_retrieve_context", "llm.invoke"} =>
                cTrace[i].text = validate_input(cReq.message, "chat", "ok").text
       /\ cPath = "answer" =>
             cResponse.response =
                moderate_output(ChatCleanUp(cAnswer).text, "chat", "ok").text

-----------------------------------------------------------------------------
(* Properties of the explainer singleton *)

\* C20: for every interleaving of get_explainer calls on the worker threads
\* the ECGExplainer constructor completes at most once, all callers receive
\* the same instance, and the global, once set, keeps its value.
C20_SingleInitialisation ==
    /\ [](sCreated <= 1)
    /\ [](\A t, u \in 1..NumThreads :
            \A i \in 1..Len(sGot[t]) : \A j \in 1..Len(sGot[u]) :
               (sGot[t][i].error = "" /\ sGot[u][j].error = "") =>
                  sGot[t][i].instance = sGot[u][j].instance)
    /\ [][sExplainer # None => sExplainer' = sExplainer]_vars

-----------------------------------------------------------------------------
(* Properties of the explanation generator: rendering and reply shapes *)

\* C21: whatever the vector store and the generation model do (any reply,
\* the empty and the whitespace-only reply included, an empty context, a
\* failure), the explanation text generate_explanation returns is not empty.
C21_ExplanationNeverEmpty ==
    (rOp = "generate_explanation") => rResult.explanation # <<>>

\* C22: for a reply that is a plain string, an object with a content field
\* or a list of candidates, the explanation is the text the reply carries,
\* stripped, with a leading "Your explanation:" echo removed.
C22_AllReplyShapesAccepted ==
    (rOp = "generate_explanation" /\ rLlm.kind \in {"str", "content", "candidates"}) =>
       LET carried == Strip(rLlm.text)
       IN  rResult.explanation =
              IF carried # <<>> /\ Head(carried) = PROMPT_ECHO
              THEN Strip(Tail(carried))
              ELSE carried

-----------------------------------------------------------------------------
(* Properties of the explainer singleton under configuration errors *)

\* C23: when the vector database directory is missing or no API token is
\* configured, the construction a get_explainer call starts raises
\* (FileNotFoundError, ValueError), the call hands that error to its caller,
\* and the step leaves the singleton as it was and stores no instance; the
\* singleton only ever holds a completely constructed instance.
C23_ConfigErrorSurfaced ==
    /\ [](sExplainer # None => sExplainer[1] \in 1..sCreated)
    /\ [][\A t \in 1..NumThreads :
            (sPc[t] = "construct" /\ sPc'[t] # "construct"
                /\ sConfig \in {"no_db", "no_token"}) =>
               /\ sPc'[t] = "idle"
               /\ sGot'[t] = Append(sGot[t],
                     [instance |-> None,
                      error |-> IF sConfig = "no_db" THEN "FileNotFoundError"
                                ELSE "ValueError"])
               /\ sExplainer' = sExplainer
               /\ sLocal' = sLocal
               /\ sCreated' = sCreated]_vars

\* a first call failed for a missing vector database and left the singleton
\* unset; after the deployment was repaired a later call of the same thread
\* constructed and returned an instance
C23_Witness ==
    \E t \in 1..NumThreads :
       /\ Len(sGot[t]) = 2
       /\ sGot[t][1] = [instance |-> None, error |-> "FileNotFoundError"]
       /\ sGot[t][2].error = ""
       /\ sGot[t][2].instance = sExplainer
       /\ sExplainer # None

-----------------------------------------------------------------------------
(* Properties of the search query *)

\* C24: the call the state records and the same call with any other sex
\* argument issue the same searches, with the same query, and return the
\* same context.
C24_QueryIgnoresSex ==
    (rOp = "_retrieve_context") =>
       \A x \in {None, Some("Male"), Some("Female")} :
          \E other \in {retrieve_context(rDiagnosis, rAge, x, rK, rQuestion,
                                          rStore, rStoreMode)} :
             /\ other.calls = rSearches
             /\ other.context = rContext

\* a call for a male patient of known age, without a question, that found
\* passages
C24_Witness ==
    /\ rOp = "_retrieve_context"
    /\ rSex = Some("Male")
    /\ rAge = Some(40)
    /\ rQuestion = None
    /\ rSearches # <<>>
    /\ rContext # <<>>

\* C25: with a question the query is the question followed by the first two
\* boost terms of the diagnosis (the question alone without boost terms);
\* without a question it is all boost terms (the lower-cased code for an
\* unknown diagnosis) followed by one age bucket when an age is given: young
\* adult below 30, middle-aged below 50, elderly from 50, none without age.
C25_QueryConstruction ==
    (rOp = "_retrieve_context") =>
       LET terms  == DictGet(DIAGNOSIS_SEARCH_MAP, rDiagnosis, <<>>)
           bucket == IF rAge = None THEN <<>>
                     ELSE IF rAge[1] < 30 THEN <<"young adult">>
                     ELSE IF rAge[1] < 50 THEN <<"middle-aged">>
                     ELSE <<"elderly">>
           query  == IF rQuestion # None
                     THEN rQuestion \o Take(terms, 2)
                     ELSE (IF terms # <<>> THEN terms ELSE <<Lower(rDiagnosis)>>)
                             \o bucket
       IN  \A i \in 1..Len(rSearches) : rSearches[i].query = query

-----------------------------------------------------------------------------
(* Properties of the prediction endpoint *)

\* C26: when the signal is valid and the model predicted, the request is
\* answered with status 200 and the prediction, confidence and probabilities
\* of the model, whatever the explainer, the metrics and the drift monitor
\* do; when get_explainer or generate_explanation raised, the explanation is
\* the static "Your ECG shows <class>..." text.
C26_LaterFailuresNeverFail ==
    (pOp = "predict_ecg" /\ pInput.shape = "ok" /\ pEnv.model.kind = "ok") =>
       /\ pResponse.status = 200
       /\ pResponse.prediction = pEnv.model.predicted_class
       /\ pResponse.confidence = pEnv.model.confidence
       /\ pResponse.probabilities = pEnv.model.probabilities
       /\ pEnv.explainer.kind # "ok" =>
             /\ Len(pResponse.explanation) = 3
             /\ pResponse.explanation[1] = "Your ECG shows "
             /\ pResponse.explanation[2] = pEnv.model.predicted_class

\* a request in which get_explainer raised, the Prometheus client raised and
\* the drift monitor raised
C26_Witness ==
    /\ pOp = "predict_ecg"
    /\ pInput.shape = "ok"
    /\ pEnv.model.kind = "ok"
    /\ pEnv.explainer.kind = "get_explainer_raises"
    /\ pEnv.metrics = "requests_inc_raises"
    /\ pEnv.drift = "check_drift_raises"
    /\ pResponse.status = 200

\* C27: a request answered with status 200 has incremented
\* prediction_requests_total{status=success} by one and the class
\* distribution counter of the predicted class by one, when the Prometheus
\* client works.
C27_PredictionRecordedOnce ==
    (pOp = "predict_ecg" /\ pResponse.status = 200 /\ pEnv.metrics = "ok") =>
       /\ pCounters.requests_total["success"] = 1
       /\ pCounters.class_distribution[pResponse.prediction] = 1

-----------------------------------------------------------------------------
(* Properties of the guardrails engine: completeness of the rules *)

\* C28: for every text given to validate_input in which a prompt-injection
\* pattern matches, whatever else the text contains, the events returned
\* contain at least one prompt_injection_heuristic event.
C28_EveryInjectionReported ==
    (gOp = "validate_input" /\ gPass = 1 /\ InjectionPatternsIn(gInput) # {}) =>
       CountRule(gEvents, "prompt_injection_heuristic") >= 1

\* C29: the text moderate_output returns contains no match of the dosage
\* pattern, also for texts of several lines with several dosage instructions.
C29_NoDosageSurvives ==
    (gOp = "moderate_output") => DosageSearch(gText) = 0

-----------------------------------------------------------------------------
(* Properties of the model cache *)

\* C30: under every interleaving of the predict_ecg_signal calls of the
\* worker threads, also when startup left the cache empty, no get_model call
\* returns a model together with class names that are None, and a call that
\* begins when the cache is full returns the cached pair without loading
\* from the registry.
C30_CacheNeverHalfLoaded ==
    \A t \in 1..NumThreads : \A i \in 1..Len(mGot[t]) :
       /\ mGot[t][i].model # None => mGot[t][i].class_names # None
       /\ mGot[t][i].after =>
             /\ mGot[t][i].loads = 0
             /\ mGot[t][i].model # None
             /\ mGot[t][i].class_names # None

====
